---- MODULE Spec2Model ----
(***************************************************************************)
(* A model of the FHIRPath evaluation engine (brianpos/fhirpath.js).       *)
(*                                                                         *)
(* The engine is a library of operations on collections.  Every component  *)
(* of the library that is verified here has its own group of variables,    *)
(* its own initial condition and next-state relation, and its own          *)
(* specification (SpecLogic, SpecEquality, ...).  While one component is   *)
(* exercised, the variables of the others rest in their idle state.        *)
(*                                                                         *)
(* JavaScript values are modelled as follows.                              *)
(*   - a result that is `true`, `false`, `[]`, `[true]` or `undefined` is  *)
(*     the string "true", "false", "empty", "[true]", "undefined";         *)
(*   - a number is [k |-> "num", n |-> its value in units of 1e-9];        *)
(*   - a string is [k |-> "str", s |-> sequence of characters];            *)
(*   - a boolean is [k |-> "bool", b |-> BOOLEAN];                         *)
(*   - an object is [k |-> "obj", ref |-> identity, props |-> sequence of  *)
(*     <<key, value>> in insertion order], keys being naturals that stand  *)
(*     for property names in lexicographic order;                          *)
(*   - a collection is a sequence of items.                                *)
(***************************************************************************)
EXTENDS Integers, Sequences, FiniteSets, TLC

VARIABLES
  \* ---- logic.ts: one evaluation of a chain  a op b op c ...
  la,       \* left operand of the operator being evaluated
  lb,       \* right operand
  lop,      \* the operator last applied ("none" before the first)
  lres,     \* what it returned
  lpc,      \* "idle" | "ready" (operands bound) | "done" (operator returned)
  ldepth    \* how many operators of the chain have been evaluated

VARIABLES
  \* ---- equality.ts: one call of an equality operator
  ea,       \* left operand, a collection
  eb,       \* right operand, a collection
  eop,      \* "none" | "equal" | "unequal" | "equival" | "unequival"
  eres,     \* what the operator returned
  epc       \* "idle" | "ready" | "done"

VARIABLES
  \* ---- filtering.ts: distinct() applied to a collection, and again to
  \* its own result
  dx,       \* the input collection
  dres1,    \* distinctFn(dx)
  dres2,    \* distinctFn(dres1)
  dpc       \* "idle" | "ready" | "once" | "twice"

VARIABLES
  \* ---- filtering.ts: one evaluation of repeat(expr)
  rdata,         \* parentData of the current call of repeatMacro
  rres,          \* state.res
  runique,       \* state.unique, the set of its keys
  rhasPrimitive, \* state.hasPrimitive
  rused,         \* the strategies getNewItems has taken so far
  rcyclic,       \* an item has been projected to itself
  rpc            \* "idle" | "call" | "pending" | "done"

VARIABLES
  \* ---- aggregate.ts: one evaluation of aggregate(expr, init)
  adata,     \* the input collection
  ainit,     \* initialValue
  aasync,    \* aasync[i]: expr delivers its result for item i as a Promise
  aindex,    \* this.$index (-1: not set)
  atotal,    \* this.$total: a value or a Promise
  alog,      \* what each evaluation of expr observed, in the order of the calls
  avals,     \* the value each evaluation of expr produced, in the order of the calls
  anext,     \* the item whose then-callback runs next
  apending,  \* the value the pending accumulator resolves to
  ares,      \* the value aggregateMacro delivered
  apc        \* "idle" | "call" | "pending" | "done"

VARIABLES
  \* ---- misc.ts: one evaluation of iif(cond, ok [, fail])
  icond,      \* what cond(data) delivers, at once or as the value of a Promise
  iasync,     \* cond(data) is a Promise
  ihasFail,   \* the fail closure is given
  icondEvals, \* calls of cond
  iokEvals,   \* calls of ok
  ifailEvals, \* calls of fail
  ires,       \* "none" | "ok" | "fail" | "empty": whose result iif delivered
  ipc         \* "idle" | "call" | "pending" | "done"

VARIABLES
  \* ---- utilities: one call of makeChildResNodes
  mparent,   \* parentResNode
  mprop,     \* childProperty
  mmodel,    \* model
  mresult,   \* the nodes returned
  mpc        \* "idle" | "call" | "done"

VARIABLES
  \* ---- navigation: one call of engine.children
  ccoll,     \* the input collection
  cmodel,    \* this.model
  ccalls,    \* the calls of makeChildResNodes: <<index of the item, childProperty>>
  cresult,   \* the nodes returned
  cpc        \* "idle" | "call" | "done"

VARIABLES
  \* ---- misc.ts: the defineVariable calls on one context
  vvars,        \* this.vars: whether it is defined, and its keys
  vprocessed,   \* this.processedVars: whether it is defined, and its keys
  vdefined,     \* this.definedVars: name -> value ({} also before it is initialized)
  vlast,        \* the last call: label, input, expr given, thrown, returned value
  vcalls        \* the calls made

VARIABLES
  \* ---- constants and datetime: evaluations sharing the module's constants
  kclock,      \* the instant new Date() gives
  knowDate,    \* constants.nowDate
  know,        \* constants.now       (-1: null)
  ktoday,      \* constants.today     (-1: null)
  ktimeOfDay,  \* constants.timeOfDay (-1: null)
  kpc,         \* each evaluation: "new" | "running" | "suspended" | "done"
  kstart,      \* the instant each evaluation's reset() captured (-1: none)
  kreturned    \* what now(), today(), timeOfDay() returned to each evaluation

VARIABLES
  \* ---- SDC weight(): the lookups of scores in value sets and code systems
  wclock,   \* Date.now()
  wcache,   \* weightCache: key -> [timestamp, value]
  wlast,    \* the last lookup: its context, key, outcome and score
  wcalls    \* the lookups made

VARIABLES
  \* ---- util.fetchWithCache
  fclock,    \* Date.now()
  fcache,    \* requestCache: key -> [timestamp, promise]
  ffetches,  \* the calls of fetch() made, each the number of its promise
  fsettled,  \* the promises that are no longer in flight
  frejected, \* the promises that were rejected
  flast      \* the last call: its key and the promise it returned

VARIABLES
  \* ---- parse
  ptree,      \* the parse tree the recognizer builds
  preported,  \* the syntax errors the recognizer has reported, in order
  perrors,    \* the errors array of the ErrorListener
  presult,    \* what parse returned or threw
  ppc         \* "idle", "recognizing", "done"

VARIABLES
  \* ---- contains, in, allTrue, anyTrue, allFalse, anyFalse
  qop,   \* the operator or function
  qa,    \* the left operand, or the input collection
  qb,    \* the right operand
  qres,  \* what the call returned, or that it threw
  qpc    \* "idle", "call", "done"

VARIABLES
  \* ---- toQuantity
  tcoll,    \* the input collection
  ttoUnit,  \* the toUnit argument
  tres,     \* what the call returned, or that it threw
  tpc       \* "idle", "call", "done"

VARIABLES
  \* ---- traceFn
  trx,       \* the input collection
  trexpr,    \* the projection expression, if any
  trcustom,  \* whether the context has a customTraceFn
  trsink,    \* the values customTraceFn has received
  trlog,     \* the values written to the console
  trret,     \* what traceFn returned
  trpc       \* "idle", "call", "pending", "done"

VARIABLES
  \* ---- equivalence of strings
  sa, sb,   \* the two strings
  sres,     \* the result of deepEqual with fuzzy
  spc       \* "idle", "call", "done"

VARIABLES
  \* ---- whereMacro, existsMacro
  hop,     \* "where" or "exists"
  hcoll,   \* the input collection
  hconds,  \* for each item the result of the criterion and whether it is pending
  hslots,  \* the mapped array: for each item a value or a promise
  hres,    \* the resolved result of whereMacro
  hexists, \* the resolved result of existsMacro
  hpc      \* "idle", "call", "pending", "done"

VARIABLES
  \* ---- intersect, exclude
  nop,    \* "intersect" or "exclude"
  n1, n2, \* the two collections
  nres,   \* the result
  npc     \* "idle", "call", "done"

VARIABLES
  \* ---- misc.singleton
  gcoll,  \* the collection
  gtype,  \* the type asked for
  gres,   \* what the call returned, or that it threw
  gpc     \* "idle", "call", "done"

VARIABLES
  \* ---- div, intdiv, mod
  yop,    \* "div", "intdiv" or "mod"
  yx, yy, \* the operands: a number or a bigint
  yres,   \* what the call returned, or that it threw
  ypc     \* "idle", "call", "done"

varsLogic == <<la, lb, lop, lres, lpc, ldepth>>
varsMath == <<yop, yx, yy, yres, ypc>>
varsSingleton == <<gcoll, gtype, gres, gpc>>
varsCombine == <<nop, n1, n2, nres, npc>>
varsWhere == <<hop, hcoll, hconds, hslots, hres, hexists, hpc>>
varsStrEquiv == <<sa, sb, sres, spc>>
varsTrace == <<trx, trexpr, trcustom, trsink, trlog, trret, trpc>>
varsToQuantity == <<tcoll, ttoUnit, tres, tpc>>
varsCollections == <<qop, qa, qb, qres, qpc>>
varsParse == <<ptree, preported, perrors, presult, ppc>>
varsFetch == <<fclock, fcache, ffetches, fsettled, frejected, flast>>
varsWeight == <<wclock, wcache, wlast, wcalls>>
varsConstants ==
  <<kclock, knowDate, know, ktoday, ktimeOfDay, kpc, kstart, kreturned>>
varsDefine == <<vvars, vprocessed, vdefined, vlast, vcalls>>
varsChildren == <<ccoll, cmodel, ccalls, cresult, cpc>>
varsMakeChild == <<mparent, mprop, mmodel, mresult, mpc>>
varsIif == <<icond, iasync, ihasFail, icondEvals, iokEvals, ifailEvals, ires, ipc>>
varsAggregate ==
  <<adata, ainit, aasync, aindex, atotal, alog, avals, anext, apending, ares, apc>>
varsRepeat == <<rdata, rres, runique, rhasPrimitive, rused, rcyclic, rpc>>
varsDistinct == <<dx, dres1, dres2, dpc>>
varsEquality == <<ea, eb, eop, eres, epc>>

vars == <<varsLogic, varsEquality, varsDistinct, varsRepeat, varsAggregate,
          varsIif, varsMakeChild, varsChildren, varsDefine,
          varsConstants, varsWeight, varsFetch,
          varsParse, varsCollections, varsToQuantity,
          varsTrace,
          varsStrEquiv,
          varsWhere,
          varsCombine,
          varsSingleton,
          varsMath>>

(***************************************************************************)
(* Bounds of the model.                                                    *)
(***************************************************************************)
MaxChain == 3     \* operators in one chain of logic operators
MaxEqLen == 2     \* items in an operand of an equality operator
MaxDistinctLen == 7   \* items in the input of distinct()
MaxRepeatInput == 2   \* items in the input of repeat()
MaxRepeatItems == 5   \* items the projection yields in one round
MaxAggLen == 3        \* items in the input of aggregate()
MaxAggValue == 6      \* the values of aggregate() are 0..MaxAggValue
MaxCondLen == 2       \* items in the condition of iif()
MaxProps == 2         \* properties of the parent's data in makeChildResNodes
MaxArrayLen == 3      \* items of a property's array and of its sibling array
MaxChildProps == 3    \* properties of a node's data in children()
MaxChildrenInput == 2 \* items in the input of children()
MaxDefineCalls == 3   \* calls of defineVariable on one context
MaxClock == 3         \* the instants of the clock are 0..MaxClock
DayLength == 2        \* instants in a day
MaxEvaluations == 2   \* evaluations in the process
MaxWeightCalls == 3   \* lookups of a score
ClockStep == 1800000  \* milliseconds the clock advances at a time
MaxClockSteps == 3    \* advances of the clock
MaxFetchCalls == 3    \* calls of fetchWithCache
MaxSyntaxErrors == 2  \* syntax errors reported for one source
MaxOperandLen == 2    \* items of an operand of contains and in
MaxBooleansLen == 3   \* items of the input of allTrue, anyTrue, allFalse, anyFalse
MaxTraceLen == 2      \* items of the input of trace and of its projection
MaxQuantityValue == 2 \* value of a source quantity
MaxWhereLen == 3      \* items of the input of where and exists
MaxStrLen == 4        \* characters of a string compared for equivalence
MaxSingletonLen == 2  \* items of the collection given to singleton
MaxCombineLen == 2    \* items of a collection of intersect and exclude, before padding
MaxMathInt == 3       \* the integer operands of div, intdiv and mod are -MaxMathInt..MaxMathInt

(***************************************************************************)
(* logic.ts                                                                *)
(***************************************************************************)
\* The operands the evaluator hands to the logic operators: a singleton
\* boolean, or the empty collection (an array).
TV == {"true", "false", "empty"}

IsArray(a) == a = "empty"

\* a || b, a && b and !a on booleans
JsOr(a, b) == IF a = "true" THEN a ELSE b
JsAnd(a, b) == IF a = "true" THEN b ELSE a
JsNot(a) == IF a = "true" THEN "false" ELSE "true"

orOpFalseEmptyIsFalse(a, b) ==
  IF IsArray(b) /\ a = "false" THEN "false"
  ELSE IF IsArray(b) THEN (IF a = "true" THEN "true" ELSE "empty")
  ELSE IF IsArray(a) THEN (IF b = "true" THEN "true" ELSE "empty")
  ELSE JsOr(a, b)

orOp(a, b) ==
  IF IsArray(b) /\ a = "true" THEN "true"
  ELSE IF IsArray(b) /\ a = "false" THEN "empty"
  ELSE IF IsArray(b) /\ IsArray(a) THEN "empty"
  ELSE IF IsArray(a) THEN (IF b = "true" THEN "true" ELSE "empty")
  ELSE JsOr(a, b)

andOp(a, b) ==
  IF IsArray(b) /\ a = "true" THEN "empty"
  ELSE IF IsArray(b) /\ a = "false" THEN "false"
  ELSE IF IsArray(b) /\ IsArray(a) THEN "empty"
  ELSE IF IsArray(a) THEN (IF b = "true" THEN "empty" ELSE "false")
  ELSE JsAnd(a, b)

xorOp(a, b) ==
  IF IsArray(a) \/ IsArray(b) THEN "empty"
  ELSE JsOr(JsAnd(a, JsNot(b)), JsAnd(JsNot(a), b))

impliesOp(a, b) ==
  IF IsArray(b) /\ a = "true" THEN "empty"
  ELSE IF IsArray(b) /\ a = "false" THEN "true"
  ELSE IF IsArray(b) /\ IsArray(a) THEN "empty"
  ELSE IF IsArray(a) THEN (IF b = "true" THEN "true" ELSE "empty")
  ELSE IF a = "false" THEN "true"
  ELSE JsAnd(a, b)

LogicIdle ==
  /\ la = "empty" /\ lb = "empty" /\ lop = "none" /\ lres = "empty"
  /\ lpc = "idle" /\ ldepth = 0

LogicInit ==
  /\ la \in TV /\ lb \in TV
  /\ lop = "none" /\ lres = "empty" /\ lpc = "ready" /\ ldepth = 0

ApplyLogic(op, r) ==
  /\ lpc = "ready"
  /\ lop' = op /\ lres' = r /\ lpc' = "done"
  /\ UNCHANGED <<la, lb, ldepth>>

OrOp == ApplyLogic("or", orOp(la, lb))
AndOp == ApplyLogic("and", andOp(la, lb))
XorOp == ApplyLogic("xor", xorOp(la, lb))
ImpliesOp == ApplyLogic("implies", impliesOp(la, lb))

\* The result of one operator is the left operand of the next one of the chain.
LogicChain ==
  /\ lpc = "done" /\ ldepth < MaxChain
  /\ la' = lres /\ lb' \in TV
  /\ lpc' = "ready" /\ ldepth' = ldepth + 1
  /\ UNCHANGED <<lop, lres>>

(***************************************************************************)
(* Values                                                                  *)
(***************************************************************************)
\* Numbers are counted in units of 1e-9, so that values closer to each other
\* than PRECISION_STEP (1e-8) exist.
Unit == 1000000000
PRECISION_STEP == 10

Num(n) == [k |-> "num", n |-> n]
Str(s) == [k |-> "str", s |-> s]
Bool(b) == [k |-> "bool", b |-> b]
Obj(ref, props) == [k |-> "obj", ref |-> ref, props |-> props]
Arr(items) == [k |-> "arr", items |-> items]

typeof(v) ==
  CASE v.k = "num" -> "number"
    [] v.k = "str" -> "string"
    [] v.k = "bool" -> "boolean"
    [] OTHER -> "object"

\* !v : 0, "" and false are falsy
Falsy(v) ==
  \/ v.k = "num" /\ v.n = 0
  \/ v.k = "str" /\ v.s = <<>>
  \/ v.k = "bool" /\ ~v.b

\* a === b : primitives by type and value, objects by identity.  The two
\* operand arrays of one operator are two arrays.
StrictEq(a, b) ==
  /\ a.k = b.k
  /\ CASE a.k = "num" -> a.n = b.n
       [] a.k = "str" -> a.s = b.s
       [] a.k = "bool" -> a.b = b.b
       [] a.k = "obj" -> a.ref = b.ref
       [] OTHER -> FALSE

isString(v) == v.k = "str"
\* The strings of the model hold no digit: parseFloat of them is NaN.
isNumber(v) == v.k = "num"

RECURSIVE Pow10(_)
Pow10(k) == IF k = 0 THEN 1 ELSE 10 * Pow10(k - 1)

RECURSIVE TrailingZeros(_)
TrailingZeros(n) == IF n % 10 # 0 THEN 0 ELSE 1 + TrailingZeros(n \div 10)

\* Math.round of (n units) / (scale units), n >= 0
MathRound(n, scale) == (2 * (n \div scale) + (2 * (n % scale)) \div scale + 1) \div 2

NumberIsInteger(n) == n % Unit = 0

decimalPlaces(n) == IF n % Unit = 0 THEN 0 ELSE 9 - TrailingZeros(n)

roundToDecimalPlaces(n, p) == MathRound(n, Pow10(9 - p))

roundToMaxPrecision(n) == MathRound(n, PRECISION_STEP) * PRECISION_STEP

isEquivalent(actual, expected) ==
  IF NumberIsInteger(actual) /\ NumberIsInteger(expected) THEN actual = expected
  ELSE LET dpa == decimalPlaces(actual)
           dpe == decimalPlaces(expected)
           prec == IF dpa < dpe THEN dpa ELSE dpe
       IN IF prec = 0
          THEN MathRound(actual, Unit) = MathRound(expected, Unit)
          ELSE roundToDecimalPlaces(actual, prec) = roundToDecimalPlaces(expected, prec)

isEqual(actual, expected) ==
  roundToMaxPrecision(actual) = roundToMaxPrecision(expected)

\* Characters: letters in two cases and two whitespace characters.
IsWs(c) == c \in {" ", "\t"}
toUpperCase(s) == [i \in 1..Len(s) |-> IF s[i] = "a" THEN "A" ELSE IF s[i] = "b" THEN "B" ELSE s[i]]

\* s.replace(/\s+/, ' ') : the pattern has no g flag, so the first run of
\* whitespace is replaced, and only that one.
replaceWs(s) ==
  LET ws == {i \in 1..Len(s) : IsWs(s[i])}
  IN IF ws = {} THEN s
     ELSE LET i == CHOOSE x \in ws : \A y \in ws : x <= y
              j == CHOOSE x \in i..Len(s) :
                     /\ \A y \in i..x : IsWs(s[y])
                     /\ (x = Len(s) \/ ~IsWs(s[x + 1]))
          IN SubSeq(s, 1, i - 1) \o <<" ">> \o SubSeq(s, j + 1, Len(s))

normalizeStr(x) == replaceWs(toUpperCase(x))

\* Object.keys(o), sorted
RECURSIVE SortKeys(_)
SortKeys(S) ==
  IF S = {} THEN <<>>
  ELSE LET m == CHOOSE x \in S : \A y \in S : x <= y
       IN <<m>> \o SortKeys(S \ {m})

objectKeys(o) ==
  IF o.k = "arr" THEN DOMAIN o.items
  ELSE IF o.k = "obj" THEN {o.props[i][1] : i \in DOMAIN o.props}
  ELSE {}

\* o[key]
Prop(o, key) ==
  IF o.k = "arr" THEN o.items[key]
  ELSE o.props[CHOOSE i \in DOMAIN o.props : o.props[i][1] = key][2]

\* deepEqual(v1, v2, opts) on values that are neither ResourceNode, FP_Type
\* nor Date.  objEquiv is its tail: it is reached with two truthy values of
\* which one at least is an object.
RECURSIVE deepEqual(_, _, _)
objEquiv(a, b, fuzzy) ==
  LET ka == SortKeys(objectKeys(a))
      kb == SortKeys(objectKeys(b))
  IN IF Len(ka) # Len(kb) THEN FALSE
     ELSE IF ka # kb THEN FALSE
     ELSE IF Len(ka) = 1 THEN deepEqual(Prop(a, ka[1]), Prop(b, kb[1]), fuzzy)
     ELSE /\ \A i \in DOMAIN ka : deepEqual(Prop(a, ka[i]), Prop(b, ka[i]), fuzzy)
          /\ typeof(a) = typeof(b)

deepEqual(v1, v2, fuzzy) ==
  IF StrictEq(v1, v2) THEN TRUE
  ELSE IF fuzzy /\ isString(v1) /\ isString(v2)
    THEN normalizeStr(v1.s) = normalizeStr(v2.s)
  ELSE IF fuzzy /\ isNumber(v1) /\ isNumber(v2)
    THEN isEquivalent(v1.n, v2.n)
  ELSE IF ~fuzzy /\ typeof(v1) = "number" /\ typeof(v2) = "number"
    THEN isEqual(v1.n, v2.n)
  ELSE IF Falsy(v1) \/ Falsy(v2) \/ (typeof(v1) # "object" /\ typeof(v2) # "object")
    THEN FALSE      \* actual === expected, which is false here
  ELSE IF (v1.k = "arr") # (v2.k = "arr")
    THEN FALSE      \* not reached: the items of a collection are no arrays
  ELSE objEquiv(v1, v2, fuzzy)

(***************************************************************************)
(* equality.ts                                                             *)
(***************************************************************************)
JsBool(b) == IF b THEN "true" ELSE "false"

isEmpty(x) == x = <<>>

equality(x, y) ==
  IF isEmpty(x) \/ isEmpty(y) THEN "empty"
  ELSE JsBool(deepEqual(Arr(x), Arr(y), FALSE))

equivalenceNoBothEmpty(x, y) ==
  IF isEmpty(x) \/ isEmpty(y) THEN "empty"
  ELSE JsBool(deepEqual(Arr(x), Arr(y), TRUE))

equivalence(x, y) ==
  IF isEmpty(x) /\ isEmpty(y) THEN "[true]"
  ELSE IF isEmpty(x) \/ isEmpty(y) THEN "empty"
  ELSE JsBool(deepEqual(Arr(x), Arr(y), TRUE))

\* !r : arrays, the empty one included, are truthy
Negate(r) == IF r \in {"true", "empty", "[true]"} THEN "false" ELSE "true"

equal(a, b) == equality(a, b)
unequal(a, b) ==
  LET eq == equality(a, b)
  IN IF eq = "undefined" THEN "undefined" ELSE Negate(eq)
equival(a, b) == equivalence(a, b)
unequival(a, b) == Negate(equivalence(a, b))

\* The items of the operands: numbers (1, 1.000000004, 1.4, 1.5), strings,
\* a boolean and objects, two of which have the same properties in another
\* order.
One == Num(Unit)
OneAndABit == Num(Unit + 4)
Obj1 == Obj(1, << <<1, One>>, <<2, Str(<<"a">>)>> >>)
Obj2 == Obj(2, << <<2, Str(<<"a">>)>>, <<1, OneAndABit>> >>)
Obj3 == Obj(3, << <<1, One>> >>)
Obj4 == Obj(4, << <<1, Num(Unit + 400000000)>> >>)

EqItems ==
  { One, OneAndABit, Num(Unit + 400000000), Num(Unit + 500000000),
    Str(<<"a">>), Str(<<"A">>), Bool(TRUE), Obj1, Obj2, Obj3 }

RECURSIVE SeqsUpTo(_, _)
SeqsUpTo(S, n) ==
  IF n = 0 THEN {<<>>}
  ELSE LET shorter == SeqsUpTo(S, n - 1)
       IN shorter \cup {Append(c, x) : c \in {d \in shorter : Len(d) = n - 1}, x \in S}

EqualityIdle ==
  ea = <<>> /\ eb = <<>> /\ eop = "none" /\ eres = "empty" /\ epc = "idle"

EqualityInit ==
  /\ ea \in SeqsUpTo(EqItems, MaxEqLen)
  /\ eb \in SeqsUpTo(EqItems, MaxEqLen)
  /\ eop = "none" /\ eres = "empty" /\ epc = "ready"

ApplyEquality(op, r) ==
  /\ epc = "ready"
  /\ eop' = op /\ eres' = r /\ epc' = "done"
  /\ UNCHANGED <<ea, eb>>

Equal == ApplyEquality("equal", equal(ea, eb))
Unequal == ApplyEquality("unequal", unequal(ea, eb))
Equival == ApplyEquality("equival", equival(ea, eb))
Unequival == ApplyEquality("unequival", unequival(ea, eb))

(***************************************************************************)
(* hash-object (types/core.ts) and TypeInfo.isPrimitiveValue               *)
(***************************************************************************)
\* JSON.stringify(prepareObject(v)) is injective on prepared values, so the
\* prepared value itself stands for the hash: numbers rounded to the maximum
\* precision, the keys of an object sorted, no identity.
RECURSIVE prepareObject(_)
prepareObject(value) ==
  IF value.k = "num" THEN Num(roundToMaxPrecision(value.n))
  ELSE IF value.k = "obj" THEN
    LET keys == SortKeys(objectKeys(value))
    IN [k |-> "obj", props |-> [i \in DOMAIN keys |-> <<keys[i], prepareObject(Prop(value, keys[i]))>>]]
  ELSE value

prepareObjectUnsortedKeys(value) ==
  IF value.k = "num" THEN Num(roundToMaxPrecision(value.n))
  ELSE IF value.k = "obj" THEN
    [k |-> "obj", props |-> [i \in DOMAIN value.props |-> <<value.props[i][1], prepareObject(value.props[i][2])>>]]
  ELSE value

hashObjectUnsortedKeys(obj) == prepareObjectUnsortedKeys(obj)

hashObject(obj) == prepareObject(obj)

\* TypeInfo.isPrimitiveValue: numbers, strings and booleans are primitive,
\* objects are not.
isPrimitiveValue(v) == v.k \in {"num", "str", "bool"}

maxCollSizeForDeepEqual == 6

(***************************************************************************)
(* filtering.ts: distinctFn                                                *)
(***************************************************************************)
\* for (i = 0; i < len; ++i): unique and uniqueHash after the items from i on
RECURSIVE distinctByHash(_, _, _, _)
distinctByHash(x, i, unique, uniqueHash) ==
  IF i > Len(x) THEN unique
  ELSE LET xStr == hashObject(x[i])
       IN IF xStr \notin uniqueHash
          THEN distinctByHash(x, i + 1, Append(unique, x[i]), uniqueHash \cup {xStr})
          ELSE distinctByHash(x, i + 1, unique, uniqueHash)

\* do { xObj = xCopy.pop(); unique.push(xObj); xCopy = xCopy.filter(...) }
\* while (xCopy.length): xCopy is the reversed input, so pop() takes the
\* items from the front of the input.
RECURSIVE distinctByDeepEqual(_)
distinctByDeepEqual(xCopy) ==
  IF xCopy = <<>> THEN <<>>
  ELSE LET xObj == Head(xCopy)
       IN <<xObj>> \o distinctByDeepEqual(
            SelectSeq(Tail(xCopy), LAMBDA o : ~deepEqual(xObj, o, FALSE)))

\* x.some(i => TypeInfo.isPrimitiveValue(i))
somePrimitive(x) == \E i \in DOMAIN x : isPrimitiveValue(x[i])

distinctFn(x) ==
  IF Len(x) > 0 THEN
    LET hasPrimitive == somePrimitive(x)
    IN IF ~hasPrimitive /\ Len(x) > maxCollSizeForDeepEqual
       THEN distinctByHash(x, 1, <<>>, {})
       ELSE distinctByDeepEqual(x)
  ELSE <<>>

\* Inputs: every collection up to MaxDistinctLen over four items (two
\* deep-equal objects, a third object, a primitive), and collections of
\* seven pairwise different objects, rotated, with one more item inserted.
DistinctItems == {Obj1, Obj2, Obj3, One}

Wide(i) == Obj(10 + i, << <<1, Num(Unit + i * 100000000)>> >>)
WideBase == [i \in 1..(maxCollSizeForDeepEqual + 1) |-> Wide(i)]
Rotate(c, r) == [i \in DOMAIN c |-> c[((i + r - 1) % Len(c)) + 1]]
InsertAt(c, p, v) == SubSeq(c, 1, p) \o <<v>> \o SubSeq(c, p + 1, Len(c))

WideInputs ==
  { InsertAt(Rotate(WideBase, r), p, v) :
      r \in 0..1, p \in 0..Len(WideBase), v \in {Wide(2), Wide(7), Obj3} }
  \cup {WideBase}

DistinctIdle == dx = <<>> /\ dres1 = <<>> /\ dres2 = <<>> /\ dpc = "idle"

DistinctInit ==
  /\ dx \in SeqsUpTo(DistinctItems, MaxDistinctLen) \cup WideInputs
  /\ dres1 = <<>> /\ dres2 = <<>> /\ dpc = "ready"

DistinctFn ==
  /\ dpc = "ready"
  /\ dres1' = distinctFn(dx) /\ dpc' = "once"
  /\ UNCHANGED <<dx, dres2>>

DistinctFnAgain ==
  /\ dpc = "once"
  /\ dres2' = distinctFn(dres1) /\ dpc' = "twice"
  /\ UNCHANGED <<dx, dres1>>

(***************************************************************************)
(* filtering.ts: repeatMacro and getNewItems                               *)
(***************************************************************************)
\* items.filter(...) of the hash branch, from item i on
RECURSIVE filterByHash(_, _, _, _)
filterByHash(items, i, unique, newItems) ==
  IF i > Len(items) THEN [newItems |-> newItems, unique |-> unique]
  ELSE LET key == hashObject(items[i])
       IN IF key \notin unique
          THEN filterByHash(items, i + 1, unique \cup {key}, Append(newItems, items[i]))
          ELSE filterByHash(items, i + 1, unique, newItems)

\* items.filter(...) of the deep-equal branch, from item i on
RECURSIVE filterByDeepEqual(_, _, _, _)
filterByDeepEqual(items, i, res, newItems) ==
  IF i > Len(items) THEN [newItems |-> newItems, res |-> res]
  ELSE IF ~\E j \in DOMAIN res : deepEqual(res[j], items[i], FALSE)
    THEN filterByDeepEqual(items, i + 1, Append(res, items[i]), Append(newItems, items[i]))
    ELSE filterByDeepEqual(items, i + 1, res, newItems)

takesHash(items, state) ==
  /\ ~(state.hasPrimitive \/ somePrimitive(items))
  /\ Len(items) + Len(state.res) > maxCollSizeForDeepEqual

\* The new items, and the state as getNewItems leaves it.
getNewItems(items, state) ==
  LET hasPrimitive == state.hasPrimitive \/ somePrimitive(items)
  IN IF takesHash(items, state)
     THEN LET f == filterByHash(items, 1, state.unique, <<>>)
          IN [newItems |-> f.newItems, res |-> state.res \o f.newItems,
              unique |-> f.unique, hasPrimitive |-> hasPrimitive]
     ELSE LET f == filterByDeepEqual(items, 1, state.res, <<>>)
          IN [newItems |-> f.newItems, res |-> f.res,
              unique |-> state.unique, hasPrimitive |-> hasPrimitive]

RepeatItems == {Obj1, Obj3, One}

RepeatIdle ==
  /\ rdata = <<>> /\ rres = <<>> /\ runique = {} /\ rhasPrimitive = FALSE
  /\ rused = {} /\ rcyclic = FALSE /\ rpc = "idle"

\* repeatMacro is entered with the input collection and a fresh state.
RepeatInit ==
  /\ rdata \in SeqsUpTo(RepeatItems, MaxRepeatInput)
  /\ rres = <<>> /\ runique = {} /\ rhasPrimitive = FALSE
  /\ rused = {} /\ rcyclic = FALSE /\ rpc = "call"

RepeatState == [res |-> rres, unique |-> runique, hasPrimitive |-> rhasPrimitive]

\* repeatMacro recursing without the test of newItems.length
RepeatContinueUnguarded(items) ==
  LET n == getNewItems(items, RepeatState)
  IN /\ rdata' = n.newItems /\ rres' = n.res /\ runique' = n.unique
     /\ rhasPrimitive' = n.hasPrimitive
     /\ rused' = rused \cup {IF takesHash(items, RepeatState) THEN "hash" ELSE "deep"}
     /\ rpc' = "call"

\* What repeatMacro does with the projected items, at once or when the
\* pending results have resolved: recurse on the new items, or return.
RepeatContinue(items) ==
  IF items # <<>>
  THEN LET n == getNewItems(items, RepeatState)
       IN /\ rdata' = n.newItems /\ rres' = n.res /\ runique' = n.unique
          /\ rhasPrimitive' = n.hasPrimitive
          /\ rused' = rused \cup {IF takesHash(items, RepeatState) THEN "hash" ELSE "deep"}
          /\ rpc' = "call"
  ELSE /\ rpc' = "done"
       /\ UNCHANGED <<rdata, rres, runique, rhasPrimitive, rused>>

\* The concatenated results of expr on the items of parentData: any items of
\* the finite set, none when parentData is empty.
Projected(data) ==
  IF data = <<>> THEN {<<>>} ELSE SeqsUpTo(RepeatItems, MaxRepeatItems)

ProjectsToItself(data, items) ==
  Len(data) = 1 /\ \E i \in DOMAIN items : StrictEq(items[i], data[1])

\* One call of repeatMacro whose projection results are all synchronous.
RepeatMacro ==
  /\ rpc = "call"
  /\ \E items \in Projected(rdata) :
       /\ rcyclic' = (rcyclic \/ ProjectsToItself(rdata, items))
       /\ RepeatContinue(items)

\* One call of repeatMacro with a pending projection result: it returns the
\* promise of Promise.all.
RepeatMacroPending ==
  /\ rpc = "call" /\ rdata # <<>>
  /\ rpc' = "pending"
  /\ UNCHANGED <<rdata, rres, runique, rhasPrimitive, rused, rcyclic>>

\* The pending results resolve to their items: the callback of
\* Promise.all(...).then
RepeatResolved ==
  /\ rpc = "pending"
  /\ \E items \in Projected(rdata) :
       /\ rcyclic' = (rcyclic \/ ProjectsToItself(rdata, items))
       /\ RepeatContinue(items)

(***************************************************************************)
(* aggregate.ts: aggregateMacro                                            *)
(***************************************************************************)
Val(v) == [k |-> "val", v |-> v]
Promise == [k |-> "promise", v |-> 0]

\* What an evaluation of expr reads from the context when it is called.
Observed(index, total) == [index |-> index, total |-> total]

\* expr(x): a value that depends on the item and on the context it observed,
\* and on their order.
expr(x, obs) ==
  IF obs.total.k = "val"
  THEN (2 * obs.total.v + x + obs.index) % (MaxAggValue + 1)
  ELSE MaxAggValue

\* The reduce callback's else branch, item i (1-based) and what follows in
\* the same turn: this.$index = i; this.$total = expr(x).  The first result
\* that is a Promise ends the evaluations of this turn; the callbacks of the
\* remaining items are chained to it.
RECURSIVE reduceSync(_, _, _, _, _, _, _)
reduceSync(data, async, i, index, total, log, vals) ==
  IF i > Len(data)
  THEN [pc |-> "done", index |-> index, total |-> total, log |-> log,
        vals |-> vals, next |-> i, pending |-> 0, res |-> total]
  ELSE LET obs == Observed(i - 1, total)
           v == expr(data[i], obs)
       IN IF async[i]
          THEN [pc |-> "pending", index |-> i - 1, total |-> Promise,
                log |-> Append(log, obs), vals |-> Append(vals, v),
                next |-> i + 1, pending |-> v, res |-> Promise]
          ELSE reduceSync(data, async, i + 1, i - 1, Val(v),
                          Append(log, obs), Append(vals, v))

\* The then-callback leaving this.$total as it found it
thenCallbackKeepsTotal(i, t, total) == Observed(i - 1, total)

\* The then-callback of item i: this.$index = i; this.$total = t, in place
\* of the total it found; the context expr(x) is then called in.
thenCallback(i, t, total) == Observed(i - 1, Val(t))

AggregateIdle ==
  /\ adata = <<>> /\ ainit = 0 /\ aasync = <<>> /\ aindex = -1 /\ atotal = Val(0)
  /\ alog = <<>> /\ avals = <<>> /\ anext = 0 /\ apending = 0
  /\ ares = Val(0) /\ apc = "idle"

AggregateInit ==
  /\ adata \in SeqsUpTo(1..2, MaxAggLen)
  /\ ainit \in 0..1
  /\ aasync \in [DOMAIN adata -> BOOLEAN]
  /\ aindex = -1 /\ atotal = Val(0)
  /\ alog = <<>> /\ avals = <<>> /\ anext = 0 /\ apending = 0
  /\ ares = Val(0) /\ apc = "call"

\* The call of aggregateMacro: this.$total = initialValue, then data.reduce.
AggregateMacro ==
  /\ apc = "call"
  /\ LET r == reduceSync(adata, aasync, 1, aindex, Val(ainit), <<>>, <<>>)
     IN /\ apc' = r.pc /\ aindex' = r.index /\ atotal' = r.total
        /\ alog' = r.log /\ avals' = r.vals /\ anext' = r.next
        /\ apending' = r.pending /\ ares' = r.res
  /\ UNCHANGED <<adata, ainit, aasync>>

\* The pending accumulator resolves to t: the then-callback of the next item
\* runs, or, after the last item, the promise aggregateMacro returned
\* resolves.  The callback's result, a value or a Promise, settles the next
\* accumulator.
AggregateResolved ==
  /\ apc = "pending"
  /\ IF anext > Len(adata)
     THEN /\ apc' = "done" /\ ares' = Val(apending)
          /\ UNCHANGED <<aindex, atotal, alog, avals, anext, apending>>
     ELSE LET obs == thenCallback(anext, apending, atotal)
              v == expr(adata[anext], obs)
          IN /\ aindex' = anext - 1
             /\ atotal' = (IF aasync[anext] THEN Promise ELSE Val(v))
             /\ alog' = Append(alog, obs) /\ avals' = Append(avals, v)
             /\ anext' = anext + 1 /\ apending' = v
             /\ UNCHANGED <<ares, apc>>
  /\ UNCHANGED <<adata, ainit, aasync>>

(***************************************************************************)
(* misc.ts: iifMacro, iifMacroSync; utilities: isTrue, valData             *)
(***************************************************************************)
\* A condition is a bare value, [arr |-> FALSE, items |-> <<v>>], or an
\* array of items.  Items: the booleans, a number, and ResourceNodes whose
\* data is a boolean.
Bare(v) == [arr |-> FALSE, items |-> <<v>>]
Coll(items) == [arr |-> TRUE, items |-> items]
CondItems == {"true", "false", "one", "nodeTrue", "nodeFalse"}
Conditions ==
  {Bare(v) : v \in {"true", "false", "null"}}
    \cup {Coll(c) : c \in SeqsUpTo(CondItems, MaxCondLen)}

valData(val) ==
  CASE val = "nodeTrue" -> "true"
    [] val = "nodeFalse" -> "false"
    [] OTHER -> val

\* isTrue taking the first item of any non-empty collection
isTrueFirstItem(x) ==
  /\ x # Bare("null")
  /\ \/ x = Bare("true")
     \/ x.arr /\ Len(x.items) >= 1 /\ valData(x.items[1]) = "true"

isTrue(x) ==
  /\ x # Bare("null")
  /\ \/ x = Bare("true")
     \/ x.arr /\ Len(x.items) = 1 /\ valData(x.items[1]) = "true"

\* The closures iifMacroSync calls, and whose result it returns.
iifMacroSync(condition, hasFail) ==
  IF isTrue(condition) THEN [ok |-> 1, fail |-> 0, res |-> "ok"]
  ELSE IF hasFail THEN [ok |-> 0, fail |-> 1, res |-> "fail"]
  ELSE [ok |-> 0, fail |-> 0, res |-> "empty"]

IifIdle ==
  /\ icond = Bare("null") /\ iasync = FALSE /\ ihasFail = FALSE
  /\ icondEvals = 0 /\ iokEvals = 0 /\ ifailEvals = 0
  /\ ires = "none" /\ ipc = "idle"

IifInit ==
  /\ icond \in Conditions /\ iasync \in BOOLEAN /\ ihasFail \in BOOLEAN
  /\ icondEvals = 0 /\ iokEvals = 0 /\ ifailEvals = 0
  /\ ires = "none" /\ ipc = "call"

IifBranch ==
  LET r == iifMacroSync(icond, ihasFail)
  IN /\ iokEvals' = iokEvals + r.ok /\ ifailEvals' = ifailEvals + r.fail
     /\ ires' = r.res /\ ipc' = "done"

\* The call of iifMacro: cond(data), then the branch, or the then-callback
\* registered on a pending condition.
IifMacro ==
  /\ ipc = "call"
  /\ icondEvals' = icondEvals + 1
  /\ IF iasync
     THEN ipc' = "pending" /\ UNCHANGED <<iokEvals, ifailEvals, ires>>
     ELSE IifBranch
  /\ UNCHANGED <<icond, iasync, ihasFail>>

\* The pending condition resolves: condition.then(c => iifMacroSync(...))
IifResolved ==
  /\ ipc = "pending"
  /\ IifBranch
  /\ UNCHANGED <<icond, iasync, ihasFail, icondEvals>>

(***************************************************************************)
(* utilities: makeChildResNodes                                            *)
(*                                                                         *)
(* Property names and paths are sequences of tokens: "_" + field is        *)
(* <<"_">> \o field, childProperty + t is childProperty \o <<t>>.  No      *)
(* token but "_" starts with an underscore.  An object is the sequence of  *)
(* its <<key, value>> pairs in insertion order.                            *)
(***************************************************************************)
Undefined == [t |-> "undefined"]
Null == [t |-> "null"]
Prim(v) == [t |-> "prim", v |-> v]
List(items) == [t |-> "array", items |-> items]
Object(props) == [t |-> "object", props |-> props]

hasOwnProperty(o, key) ==
  o.t = "object" /\ \E i \in DOMAIN o.props : o.props[i][1] = key

\* o?.[key]
Get(o, key) ==
  IF hasOwnProperty(o, key)
  THEN o.props[CHOOSE i \in DOMAIN o.props : o.props[i][1] = key][2]
  ELSE Undefined

isSome(x) ==
  x.t \notin {"null", "undefined"} /\ ~(x.t = "array" /\ x.items = <<>>)

\* map[key], or the default where the map has no such key
Lookup(map, key, default) == IF key \in DOMAIN map THEN map[key] ELSE default

\* ResourceNode.makeResNode: the node carries what it is made from
\* (index -1: none).  t = "node" tells a ResourceNode from plain data.
makeResNode(data, path, udata, fhirNodeDataType, propName, index) ==
  [t |-> "node", data |-> data, udata |-> udata, path |-> path,
   fhirNodeDataType |-> fhirNodeDataType, propName |-> propName, index |-> index]

\* for (const t of actualTypes), from the i-th type on
RECURSIVE probeTypes(_, _, _, _)
probeTypes(data, childProperty, actualTypes, i) ==
  IF i > Len(actualTypes)
  THEN [t |-> <<>>, toAdd |-> Undefined, utoAdd |-> Undefined]
  ELSE LET field == childProperty \o <<actualTypes[i]>>
           toAdd == Get(data, field)
           utoAdd == Get(data, <<"_">> \o field)
       IN IF toAdd # Undefined \/ utoAdd # Undefined
          THEN [t |-> <<actualTypes[i]>>, toAdd |-> toAdd, utoAdd |-> utoAdd]
          ELSE probeTypes(data, childProperty, actualTypes, i + 1)

\* childPath after the model's last mapping, leaving it as it is
compactPathIdentity(model, childPath) == childPath

\* childPath = model.path2TypeWithoutElements[childPath] || childPath
compactPath(model, childPath) ==
  IF model.defined THEN Lookup(model.path2TypeWithoutElements, childPath, childPath)
  ELSE childPath

\* _toAdd && _toAdd[i]
ItemOf(utoAdd, i) ==
  IF utoAdd.t \in {"null", "undefined"} THEN utoAdd
  ELSE IF utoAdd.t = "array" /\ i \in DOMAIN utoAdd.items THEN utoAdd.items[i]
  ELSE Undefined

\* _toAdd?.length || 0
LengthOf(utoAdd) == IF utoAdd.t = "array" THEN Len(utoAdd.items) ELSE 0

makeChildResNodes(parentResNode, childProperty, model) ==
  LET path0 == parentResNode.path \o <<".">> \o childProperty
      path1 == IF model.defined THEN Lookup(model.pathsDefinedElsewhere, path0, path0)
               ELSE path0
      isChoice == model.defined /\ path1 \in DOMAIN model.choiceTypePaths
      probe == probeTypes(parentResNode.data, childProperty, model.choiceTypePaths[path1], 1)
      own == Get(parentResNode.data, childProperty)
      uown == Get(parentResNode.data, <<"_">> \o childProperty)
      toAdd == IF isChoice THEN probe.toAdd
               ELSE IF own = Undefined /\ uown = Undefined
                 THEN Get(parentResNode.udata, childProperty)
                 ELSE own
      utoAdd == IF isChoice THEN probe.utoAdd ELSE uown
      path2 == IF isChoice THEN path1 \o probe.t
               ELSE IF childProperty = <<"extension">> THEN <<"Extension">>
               ELSE path1
      fhirNodeDataType == IF model.defined THEN Lookup(model.path2Type, path2, "undefined")
                          ELSE "null"
      childPath == compactPath(model, path2)
  IN IF isSome(toAdd) \/ isSome(utoAdd)
     THEN IF toAdd.t = "array"
          THEN [i \in 1..Len(toAdd.items) |->
                  makeResNode(toAdd.items[i], childPath, ItemOf(utoAdd, i),
                              fhirNodeDataType, childProperty, i - 1)]
               \o [j \in 1..(LengthOf(utoAdd) - Len(toAdd.items)) |->
                     makeResNode(Null, childPath, utoAdd.items[Len(toAdd.items) + j],
                                 fhirNodeDataType, childProperty, Len(toAdd.items) + j - 1)]
          ELSE IF toAdd.t \in {"null", "undefined"} /\ utoAdd.t = "array"
          THEN [i \in 1..Len(utoAdd.items) |->
                  makeResNode(Null, childPath, utoAdd.items[i],
                              fhirNodeDataType, childProperty, -1)]
          ELSE <<makeResNode(toAdd, childPath, utoAdd, fhirNodeDataType, childProperty, -1)>>
     ELSE <<>>

\* The data a call is made on.  Values of plain keys: a primitive, null, a
\* list; of underscore keys: an object of associated data, null, a list.
Ext == Object(<< <<<<"id">>, Prim("id1")>> >>)
PlainValues == {Prim("v"), Null, List(<<Prim("x"), Prim("y")>>)}
UnderscoreValues == {Ext, Null, List(<<Ext>>)}
ValuesOf(key) == IF Head(key) = "_" THEN UnderscoreValues ELSE PlainValues

\* The objects of up to n properties with distinct keys of the set
RECURSIVE ObjectsUpTo(_, _)
ObjectsUpTo(keys, n) ==
  IF n = 0 THEN {Object(<<>>)}
  ELSE LET smaller == ObjectsUpTo(keys, n - 1)
       IN smaller \cup
          { Object(Append(o.props, <<k, v>>)) :
              o \in {q \in smaller : Len(q.props) = n - 1},
              k \in keys, v \in PlainValues \cup UnderscoreValues }
\* ... whose keys are distinct and whose values fit their keys
WellFormed(o) ==
  /\ \A i, j \in DOMAIN o.props : o.props[i][1] = o.props[j][1] => i = j
  /\ \A i \in DOMAIN o.props : o.props[i][2] \in ValuesOf(o.props[i][1])

ChoiceKeys ==
  { <<"value", "Quantity">>, <<"_", "value", "Quantity">>,
    <<"value", "String">>, <<"_", "value", "String">> }

NoMap == <<>>
NoModel ==
  [defined |-> FALSE, pathsDefinedElsewhere |-> NoMap, choiceTypePaths |-> NoMap,
   path2Type |-> NoMap, path2TypeWithoutElements |-> NoMap]
ObservationValue == <<"Observation", ".", "value">>
BaseValue == <<"Base", ".", "value">>
\* value[x] of Observation as a choice of Quantity and String
ChoiceModel ==
  [defined |-> TRUE, pathsDefinedElsewhere |-> NoMap,
   choiceTypePaths |-> [q \in {ObservationValue} |-> <<"Quantity", "String">>],
   path2Type |-> NoMap, path2TypeWithoutElements |-> NoMap]
\* ... with the types of the concrete paths, as the FHIR models have them
TypedChoiceModel ==
  [ChoiceModel EXCEPT
     !.path2Type = [q \in {ObservationValue \o <<"Quantity">>} |-> "Quantity"],
     !.path2TypeWithoutElements =
        [q \in {ObservationValue \o <<"Quantity">>} |-> <<"Quantity">>]]
\* ... with the choice defined at another path, String first
ElsewhereChoiceModel ==
  [ChoiceModel EXCEPT
     !.pathsDefinedElsewhere = [q \in {ObservationValue} |-> BaseValue],
     !.choiceTypePaths = [q \in {BaseValue} |-> <<"String", "Quantity">>]]
\* ... with no candidate type
EmptyChoiceModel ==
  [ChoiceModel EXCEPT !.choiceTypePaths = [q \in {ObservationValue} |-> <<>>]]
Models == {NoModel, ChoiceModel, TypedChoiceModel, ElsewhereChoiceModel, EmptyChoiceModel}

Node(data, udata, path) == makeResNode(data, path, udata, "null", <<>>, -1)

MakeChildIdle ==
  /\ mparent = Node(Null, Object(<<>>), <<>>) /\ mprop = <<>> /\ mmodel = NoModel
  /\ mresult = <<>> /\ mpc = "idle"

MakeChildInit ==
  /\ \E o \in {q \in ObjectsUpTo(ChoiceKeys, MaxProps) : WellFormed(q)} :
       mparent = Node(o, Object(<<>>), <<"Observation">>)
  /\ mprop \in {<<"value">>, <<"value", "Quantity">>}
  /\ mmodel \in Models
  /\ mresult = <<>> /\ mpc = "call"

\* A call on a property a whose value is an array, with a sibling array _a:
\* values and nulls, associated data and nulls, of any two lengths.
MakeChildArraysInit ==
  /\ \E v \in SeqsUpTo({Prim("x"), Null}, MaxArrayLen),
        m \in SeqsUpTo({Ext, Null}, MaxArrayLen) :
       mparent = Node(Object(<< <<<<"a">>, List(v)>>, <<<<"_", "a">>, List(m)>> >>),
                      Object(<<>>), <<"Observation">>)
  /\ mprop = <<"a">>
  /\ mmodel \in {NoModel, TypedChoiceModel}
  /\ mresult = <<>> /\ mpc = "call"

MakeChildResNodes ==
  /\ mpc = "call"
  /\ mresult' = makeChildResNodes(mparent, mprop, mmodel)
  /\ mpc' = "done"
  /\ UNCHANGED <<mparent, mprop, mmodel>>

(***************************************************************************)
(* navigation: engine.children                                             *)
(***************************************************************************)
\* Every key of the data expanded under its own name
expandsEveryKey(data, prop) == <<prop>>

\* The body of for (let prop in x.data): the property names
\* makeChildResNodes is called with for the key prop, none or one.
expands(data, prop) ==
  IF Head(prop) = "_"
  THEN IF ~hasOwnProperty(data, Tail(prop)) THEN <<Tail(prop)>> ELSE <<>>
  ELSE IF prop # <<"resourceType">> THEN <<prop>> ELSE <<>>

RECURSIVE expandProps(_, _)
expandProps(data, i) ==
  IF i > Len(data.props) THEN <<>>
  ELSE expands(data, data.props[i][1]) \o expandProps(data, i + 1)

\* The property names one item of the collection is expanded under: the
\* keys of its data, or of its _data where the data is no object.
expanded(x) ==
  IF x.t # "node" THEN <<>>
  ELSE IF x.data.t = "object" THEN expandProps(x.data, 1)
  ELSE IF x.udata.t = "object" THEN [i \in DOMAIN x.udata.props |-> x.udata.props[i][1]]
  ELSE <<>>

\* coll.reduce(...) from item i on, acc so far: the calls and the nodes
\* pushed.
RECURSIVE children(_, _, _, _, _)
children(coll, model, i, calls, acc) ==
  IF i > Len(coll) THEN [calls |-> calls, nodes |-> acc]
  ELSE LET names == expanded(coll[i])
           pushAll[n \in 0..Len(names)] ==
             IF n = 0 THEN acc
             ELSE pushAll[n - 1] \o makeChildResNodes(coll[i], names[n], model)
       IN children(coll, model, i + 1,
                   calls \o [n \in DOMAIN names |-> <<i, names[n]>>],
                   pushAll[Len(names)])

\* The nodes children() is called on hold one value for each key.
ValueOf(key) == IF Head(key) = "_" THEN Ext ELSE Prim("v")
ChildKeys ==
  { <<"a">>, <<"_", "a">>, <<"_", "b">>, <<"resourceType">>, <<"_", "resourceType">> }
RECURSIVE KeySeqs(_, _)
KeySeqs(keys, n) ==
  IF n = 0 THEN {<<>>}
  ELSE LET shorter == KeySeqs(keys, n - 1)
       IN shorter \cup
          { Append(c, k) : c \in {d \in shorter : Len(d) = n - 1}, k \in keys }
ChildData ==
  { Object([i \in DOMAIN ks |-> <<ks[i], ValueOf(ks[i])>>]) :
      ks \in {c \in KeySeqs(ChildKeys, MaxChildProps) :
                \A i, j \in DOMAIN c : c[i] = c[j] => i = j} }
\* Nodes of object data, a node of a primitive with associated data, and a
\* plain value that is no ResourceNode.
ChildrenItems ==
  {Node(o, Object(<<>>), <<"Observation">>) : o \in ChildData}
    \cup {Node(Prim("v"), Ext, <<"Observation", ".", "id">>), Prim("v")}

\* The collections children() is called on: one item of any kind, before
\* or after a few others.
OtherItems ==
  { Prim("v"), Node(Prim("v"), Ext, <<"Observation", ".", "id">>),
    Node(Object(<< <<<<"_", "a">>, Ext>>, <<<<"resourceType">>, Prim("v")>> >>),
         Object(<<>>), <<"Observation">>) }
ChildrenInputs ==
  {<<>>} \cup
  UNION { {<<x>> \o rest, rest \o <<x>>} :
            x \in ChildrenItems, rest \in SeqsUpTo(OtherItems, MaxChildrenInput - 1) }

ChildrenIdle ==
  ccoll = <<>> /\ cmodel = NoModel /\ ccalls = <<>> /\ cresult = <<>> /\ cpc = "idle"

ChildrenInit ==
  /\ ccoll \in ChildrenInputs
  /\ cmodel \in {NoModel, TypedChoiceModel}
  /\ ccalls = <<>> /\ cresult = <<>> /\ cpc = "call"

Children ==
  /\ cpc = "call"
  /\ LET r == children(ccoll, cmodel, 1, <<>>, <<>>)
     IN ccalls' = r.calls /\ cresult' = r.nodes
  /\ cpc' = "done"
  /\ UNCHANGED <<ccoll, cmodel>>

(***************************************************************************)
(* misc.ts: defineVariable                                                 *)
(***************************************************************************)
VarNames == {"a", "b", "toString"}
\* What every object inherits: "toString" in {} is true.
InheritedNames == {"toString"}

\* this.vars && label in this.vars
InObject(label, o) ==
  o.defined /\ (label \in o.keys \/ label \in InheritedNames)

NoObject == [defined |-> FALSE, keys |-> {}]
Keys(keys) == [defined |-> TRUE, keys |-> keys]

\* Object.keys(this.definedVars).includes(label), never finding the label
includesKeyNever(definedVars, label) == FALSE

\* Object.keys(this.definedVars).includes(label)
includesKey(definedVars, label) == label \in DOMAIN definedVars

\* expr(x): a value other than the input
defineExpr(x) == x + 10

\* The outcome of defineVariable(x, label, expr) on the context
defineVariable(x, label, hasExpr, ctxVars, ctxProcessed, definedVars) ==
  LET data == IF hasExpr THEN defineExpr(x) ELSE x
  IN IF InObject(label, ctxVars) \/ InObject(label, ctxProcessed)
     THEN [thrown |-> "Environment Variable already defined", ret |-> 0,
           definedVars |-> definedVars]
     ELSE IF includesKey(definedVars, label)
     THEN [thrown |-> "Variable already defined", ret |-> 0,
           definedVars |-> definedVars]
     ELSE [thrown |-> "none", ret |-> x,
           definedVars |-> [n \in DOMAIN definedVars \cup {label} |->
                              IF n = label THEN data ELSE definedVars[n]]]

NoCall == [label |-> "", x |-> 0, hasExpr |-> FALSE, thrown |-> "none", ret |-> 0]

DefineIdle ==
  /\ vvars = NoObject /\ vprocessed = NoObject /\ vdefined = <<>>
  /\ vlast = NoCall /\ vcalls = -1

DefineInit ==
  /\ vvars \in {NoObject, Keys({}), Keys({"a"})}
  /\ vprocessed \in {NoObject, Keys({"b"})}
  /\ vdefined = <<>> /\ vlast = NoCall /\ vcalls = 0

DefineVariable ==
  /\ vcalls >= 0 /\ vcalls < MaxDefineCalls
  /\ \E label \in VarNames, x \in 1..2, hasExpr \in BOOLEAN :
       LET r == defineVariable(x, label, hasExpr, vvars, vprocessed, vdefined)
       IN /\ vdefined' = r.definedVars
          /\ vlast' = [label |-> label, x |-> x, hasExpr |-> hasExpr,
                       thrown |-> r.thrown, ret |-> r.ret]
  /\ vcalls' = vcalls + 1
  /\ UNCHANGED <<vvars, vprocessed>>

(***************************************************************************)
(* constants: reset; datetime: now, today, timeOfDay                       *)
(*                                                                         *)
(* JavaScript runs one evaluation at a time; an evaluation waiting for a   *)
(* fetch is suspended and another may start meanwhile.                     *)
(***************************************************************************)
Evaluations == 1..MaxEvaluations

\* FP_DateTime of isoDateTime(d), FP_Date of isoDate(d), FP_Time of isoTime(d)
isoDateTime(d) == d
isoDate(d) == d \div DayLength
isoTime(d) == d % DayLength

ConstantsIdle ==
  /\ kclock = 0 /\ knowDate = 0 /\ know = -1 /\ ktoday = -1 /\ ktimeOfDay = -1
  /\ kpc = [e \in Evaluations |-> "idle"]
  /\ kstart = [e \in Evaluations |-> -1]
  /\ kreturned = [e \in Evaluations |-> {}]

\* The module is loaded: nowDate: new Date(), the caches null.
ConstantsInit ==
  /\ kclock = 0 /\ knowDate = 0 /\ know = -1 /\ ktoday = -1 /\ ktimeOfDay = -1
  /\ kpc = [e \in Evaluations |-> "new"]
  /\ kstart = [e \in Evaluations |-> -1]
  /\ kreturned = [e \in Evaluations |-> {}]

NoneRunning == \A e \in Evaluations : kpc[e] # "running"

ClockTick ==
  /\ kclock < MaxClock /\ \E e \in Evaluations : kpc[e] \in {"new", "running", "suspended"}
  /\ kclock' = kclock + 1
  /\ UNCHANGED <<knowDate, know, ktoday, ktimeOfDay, kpc, kstart, kreturned>>

\* An evaluation starts: constants.reset()
Reset(e) ==
  /\ kpc[e] = "new" /\ NoneRunning
  /\ knowDate' = kclock /\ know' = -1 /\ ktoday' = -1 /\ ktimeOfDay' = -1
  /\ kpc' = [kpc EXCEPT ![e] = "running"]
  /\ kstart' = [kstart EXCEPT ![e] = kclock]
  /\ UNCHANGED <<kclock, kreturned>>

NowFn(e) ==
  /\ kpc[e] = "running"
  /\ know' = (IF know = -1 THEN isoDateTime(knowDate) ELSE know)
  /\ kreturned' = [kreturned EXCEPT ![e] = @ \cup {<<"now", know'>>}]
  /\ UNCHANGED <<kclock, knowDate, ktoday, ktimeOfDay, kpc, kstart>>

TodayFn(e) ==
  /\ kpc[e] = "running"
  /\ ktoday' = (IF ktoday = -1 THEN isoDate(knowDate) ELSE ktoday)
  /\ kreturned' = [kreturned EXCEPT ![e] = @ \cup {<<"today", ktoday'>>}]
  /\ UNCHANGED <<kclock, knowDate, know, ktimeOfDay, kpc, kstart>>

TimeOfDayFn(e) ==
  /\ kpc[e] = "running"
  /\ ktimeOfDay' = (IF ktimeOfDay = -1 THEN isoTime(knowDate) ELSE ktimeOfDay)
  /\ kreturned' = [kreturned EXCEPT ![e] = @ \cup {<<"timeOfDay", ktimeOfDay'>>}]
  /\ UNCHANGED <<kclock, knowDate, know, ktoday, kpc, kstart>>

\* The evaluation waits for an asynchronous fetch.
EvalSuspend(e) ==
  /\ kpc[e] = "running"
  /\ kpc' = [kpc EXCEPT ![e] = "suspended"]
  /\ UNCHANGED <<kclock, knowDate, know, ktoday, ktimeOfDay, kstart, kreturned>>

\* The fetch has resolved: the evaluation goes on.
EvalResume(e) ==
  /\ kpc[e] = "suspended" /\ NoneRunning
  /\ kpc' = [kpc EXCEPT ![e] = "running"]
  /\ UNCHANGED <<kclock, knowDate, know, ktoday, ktimeOfDay, kstart, kreturned>>

EvalDone(e) ==
  /\ kpc[e] = "running"
  /\ kpc' = [kpc EXCEPT ![e] = "done"]
  /\ UNCHANGED <<kclock, knowDate, know, ktoday, ktimeOfDay, kstart, kreturned>>

(***************************************************************************)
(* SDC weight(): weightCache, putScoreToCache, hasScoreInCache,            *)
(* addWeightFromCorrespondingResourcesToResult, getWeightFromCS,           *)
(* getTerminologyUrl                                                       *)
(***************************************************************************)
cacheStorageTime == 3600000

ScoreNum(n) == [t |-> "number", n |-> n]
\* The promise of the score the terminology server will give
ScorePromise == [t |-> "promise", n |-> 0]
ScoreNone(t) == [t |-> t, n |-> 0]   \* undefined, null

\* if (score)
Truthy(score) == score.t = "promise" \/ (score.t = "number" /\ score.n # 0)

\* The cache keys: model version, questionnaire, terminology url, value set
\* URL, code and system joined by |
WeightKeys == {"k1", "k2"}

hasScoreInCache(cache, key, now) ==
  key \in DOMAIN cache /\ now - cache[key].timestamp < cacheStorageTime

putScoreToCache(cache, key, value, now) ==
  [k \in DOMAIN cache \cup {key} |->
     IF k = key THEN [timestamp |-> now, value |-> value] ELSE cache[k]]

\* What the resources hold for a lookup:
\*   code    value.code is given
\*   vs      "none": no answerValueSet; "missingId": #id of no contained value
\*           set; "notContained": a url of no contained value set; else the
\*           contained value set, with getWeightFromVS giving a number
\*           ("score0", "score1"), undefined ("noScore") or null ("noItem")
\*   system  value.system is given
\*   cs      the contained code system giving a number or undefined, or
\*           "server": no contained code system
Resources ==
  [code : BOOLEAN,
   vs : {"none", "missingId", "notContained", "score0", "score1", "noScore", "noItem"},
   system : BOOLEAN,
   cs : {"score0", "score1", "noScore", "server"}]

NumberOrNone(r) ==
  CASE r = "score0" -> ScoreNum(0)
    [] r = "score1" -> ScoreNum(1)
    [] r = "noItem" -> ScoreNone("null")
    [] OTHER -> ScoreNone("undefined")

\* getWeightFromCS: the contained code system, or the terminology server,
\* where getTerminologyUrl throws unless ctx.async
getWeightFromCS(async, res) ==
  IF res.cs # "server" THEN [thrown |-> FALSE, score |-> NumberOrNone(res.cs)]
  ELSE IF ~async THEN [thrown |-> TRUE, score |-> ScoreNone("undefined")]
  ELSE [thrown |-> FALSE, score |-> ScorePromise]

\* The else branch of addWeightFromCorrespondingResourcesToResult: the
\* score from the resources
scoreFromResources(async, res) ==
  IF ~res.code THEN [thrown |-> FALSE, score |-> ScoreNone("undefined")]
  ELSE IF res.vs = "missingId" THEN [thrown |-> TRUE, score |-> ScoreNone("undefined")]
  ELSE LET fromVS == IF res.vs \in {"none", "notContained"}
                     THEN ScoreNone("undefined") ELSE NumberOrNone(res.vs)
       IN IF res.system /\ fromVS.t \in {"undefined", "null"}
          THEN getWeightFromCS(async, res)
          ELSE [thrown |-> FALSE, score |-> fromVS]

\* addWeightFromCorrespondingResourcesToResult: what it leaves in the cache,
\* the score, and whether it threw, took the score from the resources,
\* pushed it to the result
addWeight(cache, now, async, key, res) ==
  IF hasScoreInCache(cache, key, now)
  THEN [cache |-> cache, thrown |-> FALSE, computed |-> FALSE,
        score |-> cache[key].value]
  ELSE LET r == scoreFromResources(async, res)
       IN IF r.thrown
          THEN [cache |-> cache, thrown |-> TRUE, computed |-> TRUE, score |-> r.score]
          ELSE [cache |-> IF Truthy(r.score)
                          THEN putScoreToCache(cache, key, r.score, now) ELSE cache,
                thrown |-> FALSE, computed |-> TRUE, score |-> r.score]

\* A score only the terminology server can give: a code and a system, no
\* score from a contained value set, no contained code system
needsServer(res) ==
  /\ res.code /\ res.system /\ res.cs = "server"
  /\ res.vs \in {"none", "notContained", "noScore", "noItem"}

NoLookup ==
  [async |-> FALSE, key |-> "", needsServer |-> FALSE,
   thrown |-> FALSE, computed |-> FALSE, score |-> ScoreNone("undefined"),
   stored |-> FALSE, cachedBefore |-> FALSE, age |-> 0]

WeightIdle == wclock = 0 /\ wcache = <<>> /\ wlast = NoLookup /\ wcalls = -1

WeightInit == wclock = 0 /\ wcache = <<>> /\ wlast = NoLookup /\ wcalls = 0

WeightClockTick ==
  /\ wcalls >= 0 /\ wclock < MaxClockSteps * ClockStep
  /\ wclock' = wclock + ClockStep
  /\ UNCHANGED <<wcache, wlast, wcalls>>

\* One lookup made by weight() for an item of its input, in an evaluation
\* with the async option on or off.
AddWeight ==
  /\ wcalls >= 0 /\ wcalls < MaxWeightCalls
  /\ \E async \in BOOLEAN, key \in WeightKeys, res \in Resources :
       LET r == addWeight(wcache, wclock, async, key, res)
       IN /\ wcache' = r.cache
          /\ wlast' = [async |-> async, key |-> key, needsServer |-> needsServer(res),
                       thrown |-> r.thrown,
                       computed |-> r.computed, score |-> r.score,
                       stored |-> /\ key \in DOMAIN r.cache
                                  /\ r.cache[key] = [timestamp |-> wclock,
                                                     value |-> r.score],
                       cachedBefore |-> key \in DOMAIN wcache,
                       age |-> IF key \in DOMAIN wcache
                               THEN wclock - wcache[key].timestamp ELSE 0]
  /\ wcalls' = wcalls + 1
  /\ UNCHANGED wclock

(***************************************************************************)
(* util.fetchWithCache                                                     *)
(***************************************************************************)
requestCacheStorageTime == 3600000

FetchUrls == {"u1", "u2"}
\* options: none, or an object with its serialization util.toJSON(options)
FetchOptions == {"none", "{\"method\":\"POST\"}"}

\* [url, options ? util.toJSON(options) : ''].join('|')
requestKey(url, options) == <<url, IF options = "none" THEN "" ELSE options>>

\* timestamp - requestCache[key].timestamp >= requestCacheStorageTime
olderThanStorageTimeOrEqual(now, timestamp) == now - timestamp >= requestCacheStorageTime

\* timestamp - requestCache[key].timestamp > requestCacheStorageTime
olderThanStorageTime(now, timestamp) == now - timestamp > requestCacheStorageTime

\* The loop that deletes the responses older than an hour
removeOld(cache, now) ==
  [k \in {j \in DOMAIN cache : ~olderThanStorageTime(now, cache[j].timestamp)} |-> cache[k]]

\* fetchWithCache: the cache and the fetches it leaves, the promise it returns
fetchWithCache(cache, fetches, now, url, options) ==
  LET key == requestKey(url, options)
      kept == removeOld(cache, now)
  IN IF key \notin DOMAIN kept
     THEN LET promise == fetches + 1
          IN [cache |-> [k \in DOMAIN kept \cup {key} |->
                           IF k = key THEN [timestamp |-> now, promise |-> promise]
                           ELSE kept[k]],
              fetches |-> fetches + 1, promise |-> promise, fetched |-> TRUE]
     ELSE [cache |-> kept, fetches |-> fetches, promise |-> kept[key].promise,
           fetched |-> FALSE]

NoFetch == [key |-> <<>>, promise |-> 0, fetched |-> FALSE]

FetchIdle ==
  /\ fclock = 0 /\ fcache = <<>> /\ ffetches = -1 /\ fsettled = {}
  /\ frejected = {} /\ flast = NoFetch

FetchInit ==
  /\ fclock = 0 /\ fcache = <<>> /\ ffetches = 0 /\ fsettled = {}
  /\ frejected = {} /\ flast = NoFetch

FetchClockTick ==
  /\ ffetches >= 0 /\ fclock < MaxClockSteps * ClockStep
  /\ fclock' = fclock + ClockStep
  /\ UNCHANGED <<fcache, ffetches, fsettled, frejected, flast>>

FetchWithCache ==
  /\ ffetches >= 0 /\ ffetches < MaxFetchCalls
  /\ \E url \in FetchUrls, options \in FetchOptions :
       LET r == fetchWithCache(fcache, ffetches, fclock, url, options)
       IN /\ fcache' = r.cache
          /\ ffetches' = r.fetches
          /\ flast' = [key |-> requestKey(url, options), promise |-> r.promise,
                       fetched |-> r.fetched]
  /\ UNCHANGED <<fclock, fsettled, frejected>>

\* How a fetch ends: with a response (its status ok or not, its content type
\* JSON or not), or without one (network failure, abort through the signal).
FetchOutcomes ==
  {[response |-> TRUE, ok |-> ok, isJson |-> isJson, aborted |-> FALSE] :
     ok \in BOOLEAN, isJson \in BOOLEAN}
  \cup {[response |-> FALSE, ok |-> FALSE, isJson |-> FALSE, aborted |-> aborted] :
          aborted \in BOOLEAN}

\* The then-callback of the promise: r.ok ? json : Promise.reject(json) for a
\* JSON response, Promise.reject(text) otherwise; a fetch that failed rejects.
rejects(outcome) ==
  IF ~outcome.response THEN TRUE
  ELSE IF outcome.isJson THEN ~outcome.ok ELSE TRUE

\* The response of a fetch in flight arrives: its promise is fulfilled or
\* rejected.  The cache is left as it is.
FetchSettled ==
  /\ ffetches >= 0
  /\ \E promise \in (1..ffetches) \ fsettled : \E outcome \in FetchOutcomes :
       /\ fsettled' = fsettled \cup {promise}
       /\ frejected' = IF rejects(outcome) THEN frejected \cup {promise} ELSE frejected
  /\ UNCHANGED <<fclock, fcache, ffetches, flast>>

(***************************************************************************)
(* parse and its ErrorListener.  The recognizer (the generated lexer and   *)
(* parser) is a black box that builds a tree of rule contexts and reports  *)
(* its syntax errors to the listener.                                      *)
(***************************************************************************)
\* A rule context: the name of its class in two parts, its text, its
\* terminal children and its rule-context children
Ctx(name, text, terminals, ruleChildren) ==
  [name |-> <<name, "Context">>, text |-> text, terminals |-> terminals,
   children |-> ruleChildren]

ParseTrees ==
  { Ctx("EntireExpression", "1", <<"<EOF>">>,
        <<Ctx("TermExpression", "1", <<>>, <<>>)>>),
    Ctx("EntireExpression", "1+", <<"<EOF>">>,
        <<Ctx("AdditiveExpression", "1+", <<"+">>, <<>>)>>) }

\* A report of the recognizer
Reports ==
  [rec : {"lexer", "parser"}, line : 1..2, col : 0..1,
   msg : {"token recognition error", "mismatched input"}]

\* ErrorListener.syntaxError, keeping only the latest error
syntaxErrorKeepsLatest(errors, rec, sym, line, col, msg, e) ==
  <<<<rec, sym, line, col, msg, e>>>>

\* ErrorListener.syntaxError
syntaxError(errors, rec, sym, line, col, msg, e) ==
  Append(errors, <<rec, sym, line, col, msg, e>>)

\* ruleName.substring(0, ruleName.length - 7): without the trailing "Context"
ruleNameOf(name) == SubSeq(name, 1, Len(name) - 1)

\* PathListener.enterEveryRule for a context without rule-context children
astLeaf(ctx) ==
  [type |-> ruleNameOf(ctx.name), text |-> ctx.text,
   terminalNodeText |-> ctx.terminals, children |-> <<>>]

\* The walk of the tree by PathListener: the AST under the root node
walk(tree) ==
  [type |-> <<>>, text |-> "", terminalNodeText |-> <<>>,
   children |->
     <<[type |-> ruleNameOf(tree.name), text |-> tree.text,
        terminalNodeText |-> tree.terminals,
        children |-> [i \in 1..Len(tree.children) |-> astLeaf(tree.children[i])]]>>]

\* "line: " + err[2] + "; column: " + err[3] + "; message: " + err[4]
errMsg(err) == <<"line: ", err[3], "; column: ", err[4], "; message: ", err[5]>>

NoAst == [type |-> <<"none">>, text |-> "", terminalNodeText |-> <<>>, children |-> <<>>]

\* The end of parse: the walk, then the error with the joined messages or
\* the AST
parseResult(tree, errors) ==
  LET ast == walk(tree)
  IN IF Len(errors) > 0
     THEN [thrown |-> TRUE, ast |-> NoAst, errors |-> errors,
           message |-> [i \in 1..Len(errors) |-> errMsg(errors[i])]]
     ELSE [thrown |-> FALSE, ast |-> ast, errors |-> <<>>, message |-> <<>>]

NoParse == [thrown |-> FALSE, ast |-> NoAst, errors |-> <<>>, message |-> <<>>]

ParseIdle ==
  /\ ptree = NoAst /\ preported = <<>> /\ perrors = <<>> /\ presult = NoParse
  /\ ppc = "idle"

ParseInit ==
  /\ ptree \in ParseTrees /\ preported = <<>> /\ perrors = <<>>
  /\ presult = NoParse /\ ppc = "recognizing"

\* The lexer or the parser reports a syntax error to the listener.
SyntaxError ==
  /\ ppc = "recognizing" /\ Len(preported) < MaxSyntaxErrors
  /\ \E r \in Reports :
       /\ preported' = Append(preported, r)
       /\ perrors' = syntaxError(perrors, r.rec, "sym", r.line, r.col, r.msg, "e")
  /\ UNCHANGED <<ptree, presult, ppc>>

\* entireExpression() has returned: parse walks the tree and returns or
\* throws.
Parse ==
  /\ ppc = "recognizing"
  /\ presult' = parseResult(ptree, perrors)
  /\ ppc' = "done"
  /\ UNCHANGED <<ptree, preported, perrors>>

(***************************************************************************)
(* collections.ts: contains, in; allTrueFn, anyTrueFn, allFalseFn,         *)
(* anyFalseFn with util.assertType                                         *)
(***************************************************************************)
Returned(value) == [thrown |-> FALSE, value |-> value]
Thrown == [thrown |-> TRUE, value |-> "error"]

RECURSIVE containsImplFrom(_, _, _)
containsImplFrom(a, b, i) ==
  IF i > Len(a) THEN FALSE
  ELSE IF deepEqual(a[i], b[1], FALSE) THEN TRUE
  ELSE containsImplFrom(a, b, i + 1)

containsImpl(a, b) == containsImplFrom(a, b, 1)

BoolToken(b) == IF b THEN "true" ELSE "false"

contains(a, b) ==
  IF Len(b) = 0 THEN Returned("[]")
  ELSE IF Len(a) = 0 THEN Returned("false")
  ELSE IF Len(b) > 1 THEN Thrown
  ELSE Returned(BoolToken(containsImpl(a, b)))

in(a, b) ==
  IF Len(a) = 0 THEN Returned("[]")
  ELSE IF Len(b) = 0 THEN Returned("false")
  ELSE IF Len(a) > 1 THEN Thrown
  ELSE Returned(BoolToken(containsImpl(b, a)))

\* typeof val
typeofVal(val) == IF val \in {"true", "false"} THEN "boolean" ELSE "number"

\* util.assertType(data, ["boolean"], ...): the data of the value, or an error
assertType(data, types) ==
  LET val == valData(data)
  IN IF typeofVal(val) \notin types THEN Thrown ELSE Returned(val)

\* The loop of the four functions: from item i while rtn = continue, with
\* rtn = (xi === target)
RECURSIVE booleansLoop(_, _, _, _, _)
booleansLoop(x, i, rtn, continue, target) ==
  IF i > Len(x) \/ rtn # continue THEN Returned(<<BoolToken(rtn)>>)
  ELSE LET xi == assertType(x[i], {"boolean"})
       IN IF xi.thrown THEN Thrown
          ELSE booleansLoop(x, i + 1, xi.value = target, continue, target)

allTrueFn(x) == booleansLoop(x, 1, TRUE, TRUE, "true")
anyTrueFn(x) == booleansLoop(x, 1, FALSE, FALSE, "true")
allFalseFn(x) == booleansLoop(x, 1, TRUE, TRUE, "false")
anyFalseFn(x) == booleansLoop(x, 1, FALSE, FALSE, "false")

MembershipItems == {One, Obj1, Obj3}
BooleansFns == {"allTrue", "anyTrue", "allFalse", "anyFalse"}

CollectionsIdle ==
  qop = "none" /\ qa = <<>> /\ qb = <<>> /\ qres = Returned("none") /\ qpc = "idle"

CollectionsInit ==
  /\ \/ /\ qop \in {"contains", "in"}
        /\ qa \in SeqsUpTo(MembershipItems, MaxOperandLen)
        /\ qb \in SeqsUpTo(MembershipItems, MaxOperandLen)
     \/ /\ qop \in BooleansFns
        /\ qa \in SeqsUpTo(CondItems, MaxBooleansLen)
        /\ qb = <<>>
  /\ qres = Returned("none") /\ qpc = "call"

Membership ==
  /\ qpc = "call" /\ qop \in {"contains", "in"}
  /\ qres' = IF qop = "contains" THEN contains(qa, qb) ELSE in(qa, qb)
  /\ qpc' = "done"
  /\ UNCHANGED <<qop, qa, qb>>

Booleans ==
  /\ qpc = "call" /\ qop \in BooleansFns
  /\ qres' = CASE qop = "allTrue" -> allTrueFn(qa)
                [] qop = "anyTrue" -> anyTrueFn(qa)
                [] qop = "allFalse" -> allFalseFn(qa)
                [] OTHER -> anyFalseFn(qa)
  /\ qpc' = "done"
  /\ UNCHANGED <<qop, qa, qb>>

(***************************************************************************)
(* misc.ts: engine.toQuantity.  FP_Quantity (its tables and convUnitTo)    *)
(* is outside the sources at hand.                                         *)
(***************************************************************************)
CalendarUnits ==
  {"year", "month", "week", "day", "hour", "minute", "second", "millisecond"}

\* UCUM codes of time, as written in toUnit (without quotes)
UcumTimeCodes == {"a", "h", "s", "ms"}

\* `'${toUnit}'`
quoted(unit) == <<"'", unit, "'">>

\* The unit of a quantity: a calendar word, or a quoted UCUM code
UnitOf(word) == <<word>>

\* A number of seconds num/den, or undefined
Seconds(num, den) == [defined |-> TRUE, num |-> num, den |-> den]
NoSeconds == [defined |-> FALSE, num |-> 0, den |-> 1]

\* FP_Quantity._calendarDuration2Seconds[unit]
calendarDuration2Seconds(unit) ==
  CASE unit = "year" -> Seconds(365 * 24 * 60 * 60, 1)
    [] unit = "month" -> Seconds(30 * 24 * 60 * 60, 1)
    [] unit = "week" -> Seconds(7 * 24 * 60 * 60, 1)
    [] unit = "day" -> Seconds(24 * 60 * 60, 1)
    [] unit = "hour" -> Seconds(60 * 60, 1)
    [] unit = "minute" -> Seconds(60, 1)
    [] unit = "second" -> Seconds(1, 1)
    [] unit = "millisecond" -> Seconds(1, 1000)
    [] OTHER -> NoSeconds

\* !x for a number of seconds or undefined
Not(x) == ~x.defined \/ x.num = 0

\* x > 1, false for undefined
GreaterThanOne(x) == x.defined /\ x.num > x.den

\* this.unit: toQuantity is called on the evaluation context, which has no
\* property unit
thisUnit(coll) == "undefined"

\* FP_Quantity.mapTimeUnitsToUCUMCode[toUnit] is defined
mapsToUCUMCode(unit) == unit \in CalendarUnits

FP_Quantity(value, unit) == [t |-> "quantity", value |-> value, unit |-> unit]

\* FP_Quantity.convUnitTo(fromUnit, value, toUnit) between units of time:
\* the quantity in toUnit, its value left symbolic
convUnitTo(fromUnit, value, toUnit) ==
  [t |-> "converted", value |-> <<value, fromUnit>>, unit |-> toUnit]

NoQuantity(t) == [t |-> t, value |-> 0, unit |-> <<>>]

toQuantity(coll, toUnit) ==
  IF Len(coll) > 1 THEN NoQuantity("thrown")
  ELSE IF Len(coll) # 1 THEN NoQuantity("undefined")
  ELSE LET thisUnitInSeconds == calendarDuration2Seconds(thisUnit(coll))
           toUnitInSeconds == calendarDuration2Seconds(toUnit)
           given == toUnit # "undefined"
       IN IF /\ given
             /\ Not(thisUnitInSeconds) # Not(toUnitInSeconds)
             /\ (GreaterThanOne(thisUnitInSeconds) \/ GreaterThanOne(toUnitInSeconds))
          THEN NoQuantity("null")
          ELSE LET unit == IF ~given THEN <<>>
                           ELSE IF ~mapsToUCUMCode(toUnit) THEN quoted(toUnit)
                           ELSE UnitOf(toUnit)
                   result == coll[1]
               IN IF given /\ result.unit # unit
                  THEN convUnitTo(result.unit, result.value, unit)
                  ELSE result

\* The source quantities: of calendar units and of UCUM units of time
SourceQuantities ==
  {FP_Quantity(v, UnitOf(u)) : v \in 1..MaxQuantityValue, u \in CalendarUnits}
    \cup {FP_Quantity(v, quoted(u)) : v \in 1..MaxQuantityValue, u \in UcumTimeCodes}

ToQuantityIdle ==
  tcoll = <<>> /\ ttoUnit = "undefined" /\ tres = NoQuantity("none") /\ tpc = "idle"

ToQuantityInit ==
  /\ tcoll \in {<<>>} \cup {<<q>> : q \in SourceQuantities}
               \cup {<<FP_Quantity(1, UnitOf("year")), FP_Quantity(1, UnitOf("day"))>>}
  /\ ttoUnit \in {"undefined"} \cup CalendarUnits \cup UcumTimeCodes
  /\ tres = NoQuantity("none") /\ tpc = "call"

ToQuantity ==
  /\ tpc = "call"
  /\ tres' = toQuantity(tcoll, ttoUnit)
  /\ tpc' = "done"
  /\ UNCHANGED <<tcoll, ttoUnit>>

(***************************************************************************)
(* misc.ts: engine.traceFn                                                 *)
(***************************************************************************)
\* The third argument of traceFn: absent, a function giving a result now
\* or as a promise, or a value that is not a function
NoExpr == [kind |-> "none", result |-> <<>>, async |-> FALSE]
ExprFn(result, async) == [kind |-> "function", result |-> result, async |-> async]
NotAFunction(value) == [kind |-> "value", result |-> value, async |-> FALSE]

\* What a call leaves: thrown (a TypeError), or the value returned, or a
\* pending promise; with the values given to customTraceFn and console.log
TraceOutcome(kind, value, sink, log) ==
  [kind |-> kind, value |-> value, sink |-> sink, log |-> log]

\* The second argument of the recursive call in the then callback: r, the
\* resolved result of the projection, passed as the expression
projectionResolved(r) == NotAFunction(r)

\* traceFn called with this.customTraceFn present or not.  The expression
\* is truthy unless absent; calling a value that is not a function throws.
traceFn(custom, x, projection) ==
  IF projection.kind = "value" THEN TraceOutcome("thrown", <<>>, <<>>, <<>>)
  ELSE IF projection.kind = "function" /\ projection.async
    THEN TraceOutcome("pending", <<>>, <<>>, <<>>)
  ELSE LET traced == IF projection.kind = "function" THEN projection.result ELSE x
       IN IF custom THEN TraceOutcome("value", x, <<traced>>, <<>>)
          ELSE TraceOutcome("value", x, <<>>, <<traced>>)

\* The then callback: engine.traceFn(x, label, r), called on engine, which
\* has no customTraceFn
thenTraceFn(x, r) == traceFn(FALSE, x, projectionResolved(r))

TraceColls == SeqsUpTo({1, 2}, MaxTraceLen)

TraceIdle ==
  /\ trx = <<>> /\ trexpr = NoExpr /\ trcustom = FALSE /\ trsink = <<>>
  /\ trlog = <<>> /\ trret = [kind |-> "none", value |-> <<>>] /\ trpc = "idle"

TraceInit ==
  /\ trx \in TraceColls
  /\ trexpr \in {NoExpr} \cup {ExprFn(r, a) : r \in TraceColls, a \in BOOLEAN}
  /\ trcustom \in BOOLEAN
  /\ trsink = <<>> /\ trlog = <<>> /\ trret = [kind |-> "none", value |-> <<>>]
  /\ trpc = "call"

TraceFn ==
  /\ trpc = "call"
  /\ LET r == traceFn(trcustom, trx, trexpr)
     IN /\ trret' = [kind |-> r.kind, value |-> r.value]
        /\ trsink' = r.sink /\ trlog' = r.log
        /\ trpc' = IF r.kind = "pending" THEN "pending" ELSE "done"
  /\ UNCHANGED <<trx, trexpr, trcustom>>

\* The pending projection resolves to its result and the then callback
\* settles the promise traceFn returned.
TraceResolved ==
  /\ trpc = "pending"
  /\ LET r == thenTraceFn(trx, trexpr.result)
     IN /\ trret' = [kind |-> IF r.kind = "thrown" THEN "rejected" ELSE "fulfilled",
                     value |-> r.value]
        /\ trsink' = trsink \o r.sink /\ trlog' = trlog \o r.log
  /\ trpc' = "done"
  /\ UNCHANGED <<trx, trexpr, trcustom>>

(***************************************************************************)
(* deep-equal.ts: deepEqual of two strings with opts.fuzzy                 *)
(***************************************************************************)
StrChars == {"a", "A", " "}

StrEquivIdle == sa = <<>> /\ sb = <<>> /\ sres = FALSE /\ spc = "idle"

StrEquivInit ==
  /\ sa \in SeqsUpTo(StrChars, MaxStrLen)
  /\ sb \in SeqsUpTo(StrChars, MaxStrLen)
  /\ sres = FALSE /\ spc = "call"

DeepEqualFuzzy ==
  /\ spc = "call"
  /\ sres' = deepEqual(Str(sa), Str(sb), TRUE)
  /\ spc' = "done"
  /\ UNCHANGED <<sa, sb>>

(***************************************************************************)
(* filtering.ts: whereMacro; utilities: flatten, flattenSync;              *)
(* collections.ts: existsMacro                                             *)
(***************************************************************************)
\* c[0] is truthy: the first element exists and is not false (a node is
\* an object and truthy whatever its data)
firstIsTruthy(c) == Len(c) > 0 /\ c[1] # "false"

\* c.length > 0 ? x : []
keepItemIfNotEmpty(c, x) == IF Len(c) > 0 THEN Bare(x) ELSE Coll(<<>>)

\* c[0] ? x : []
keepItem(c, x) == IF firstIsTruthy(c) THEN Bare(x) ELSE Coll(<<>>)

Settled(value) == [pending |-> FALSE, value |-> value]
Pending == [pending |-> TRUE, value |-> Coll(<<>>)]

\* dataArray.map(...): a value where the criterion answered, a promise
\* where it is pending
mapItems(coll, conds) ==
  [i \in 1..Len(coll) |->
     IF conds[i].async THEN Pending ELSE Settled(keepItem(conds[i].result, coll[i]))]

\* [].concat(...x)
RECURSIVE flattenSync(_)
flattenSync(x) ==
  IF Len(x) = 0 THEN <<>> ELSE Head(x).items \o flattenSync(Tail(x))

\* existsMacro without criterion
existsFn(coll) == ~isEmpty(coll)

WhereItems(n) == [i \in 1..n |-> i]

CriterionResults ==
  {<<>>, <<"true">>, <<"false">>, <<"nodeFalse">>, <<"false", "true">>}

WhereIdle ==
  /\ hop = "none" /\ hcoll = <<>> /\ hconds = <<>> /\ hslots = <<>>
  /\ hres = <<>> /\ hexists = FALSE /\ hpc = "idle"

WhereInit ==
  /\ hop \in {"where", "exists"}
  /\ \E n \in 0..MaxWhereLen :
       /\ hcoll = WhereItems(n)
       /\ hconds \in [1..n -> [result : CriterionResults, async : BOOLEAN]]
  /\ hslots = <<>> /\ hres = <<>> /\ hexists = FALSE /\ hpc = "call"

\* The call: every item is mapped; without a promise among the mapped
\* values the result is there at once.
WhereMacro ==
  /\ hpc = "call"
  /\ LET slots == mapItems(hcoll, hconds)
         some == \E i \in 1..Len(slots) : slots[i].pending
         values == [i \in 1..Len(slots) |-> slots[i].value]
     IN /\ hslots' = slots
        /\ IF some THEN hpc' = "pending" /\ UNCHANGED <<hres, hexists>>
           ELSE /\ hpc' = "done"
                /\ hres' = flattenSync(values)
                /\ hexists' = (hop = "exists" /\ existsFn(flattenSync(values)))
  /\ UNCHANGED <<hop, hcoll, hconds>>

\* A pending criterion resolves, in any order: its then callback decides
\* for its item.
CriterionResolved ==
  /\ hpc = "pending"
  /\ \E i \in 1..Len(hslots) :
       /\ hslots[i].pending
       /\ hslots' = [hslots EXCEPT ![i] = Settled(keepItem(hconds[i].result, hcoll[i]))]
  /\ UNCHANGED <<hop, hcoll, hconds, hres, hexists, hpc>>

\* Promise.all(x) is fulfilled: flattenSync of the values, and for exists
\* the then callback of existsMacro.
AllResolved ==
  /\ hpc = "pending"
  /\ \A i \in 1..Len(hslots) : ~hslots[i].pending
  /\ LET values == [i \in 1..Len(hslots) |-> hslots[i].value]
     IN /\ hres' = flattenSync(values)
        /\ hexists' = (hop = "exists" /\ existsFn(flattenSync(values)))
  /\ hpc' = "done"
  /\ UNCHANGED <<hop, hcoll, hconds, hslots>>

(***************************************************************************)
(* combining.ts: intersect, exclude                                        *)
(***************************************************************************)
\* distinctFn called with hasPrimitive given
distinctFnWith(x, hasPrimitive) ==
  IF Len(x) > 0 THEN
    IF ~hasPrimitive /\ Len(x) > maxCollSizeForDeepEqual
    THEN distinctByHash(x, 1, <<>>, {})
    ELSE distinctByDeepEqual(x)
  ELSE <<>>

\* coll2.forEach: the hashes of coll2 set to true, and uncheckedLength
RECURSIVE hashColl2(_, _, _, _)
hashColl2(coll2, j, coll2hash, uncheckedLength) ==
  IF j > Len(coll2) THEN [hash |-> coll2hash, uncheckedLength |-> uncheckedLength]
  ELSE LET hash == hashObject(coll2[j])
       IN IF hash \in coll2hash
          THEN hashColl2(coll2, j + 1, coll2hash, uncheckedLength - 1)
          ELSE hashColl2(coll2, j + 1, coll2hash \cup {hash}, uncheckedLength)

\* The hashes left true when the item is pushed without coll2hash[hash] = false
keepsChecked(coll2hash, hash) == coll2hash

\* coll2hash[hash] = false
setChecked(coll2hash, hash) == coll2hash \ {hash}

\* for (i = 0; i < coll1Length && uncheckedLength > 0; ++i)
RECURSIVE intersectByHash(_, _, _, _, _)
intersectByHash(coll1, i, coll2hash, uncheckedLength, result) ==
  IF i > Len(coll1) \/ uncheckedLength <= 0 THEN result
  ELSE LET hash == hashObject(coll1[i])
       IN IF hash \in coll2hash
          THEN intersectByHash(coll1, i + 1, setChecked(coll2hash, hash),
                               uncheckedLength - 1, Append(result, coll1[i]))
          ELSE intersectByHash(coll1, i + 1, coll2hash, uncheckedLength, result)

\* coll2.some(obj2 => deepEqual(obj1, obj2))
someDeepEqual(obj1, coll2) == \E j \in DOMAIN coll2 : deepEqual(obj1, coll2[j], FALSE)

intersect(coll1, coll2) ==
  IF Len(coll1) # 0 /\ Len(coll2) # 0 THEN
    LET hasPrimitive == somePrimitive(coll1) \/ somePrimitive(coll2)
    IN IF ~hasPrimitive /\ Len(coll1) + Len(coll2) > maxCollSizeForDeepEqual
       THEN LET h == hashColl2(coll2, 1, {}, Len(coll2))
            IN intersectByHash(coll1, 1, h.hash, h.uncheckedLength, <<>>)
       ELSE SelectSeq(distinctFnWith(coll1, hasPrimitive),
                      LAMBDA obj1 : someDeepEqual(obj1, coll2))
  ELSE <<>>

exclude(coll1, coll2) ==
  IF Len(coll2) = 0 THEN coll1
  ELSE IF Len(coll1) # 0 THEN
    LET hasPrimitive == somePrimitive(coll1) \/ somePrimitive(coll2)
    IN IF ~hasPrimitive /\ Len(coll1) + Len(coll2) > maxCollSizeForDeepEqual
       THEN LET coll2hash == {hashObject(coll2[j]) : j \in DOMAIN coll2}
            IN SelectSeq(coll1, LAMBDA item : hashObject(item) \notin coll2hash)
       ELSE SelectSeq(coll1, LAMBDA item : ~someDeepEqual(item, coll2))
  ELSE <<>>

\* collections.ts: subsetOf.  The items of the model are plain values, for
\* which util.valData gives the value itself.
RECURSIVE subsetOfByDeepEqual(_, _, _, _)
subsetOfByDeepEqual(coll1, coll2, p, rtn) ==
  IF p > Len(coll1) \/ ~rtn THEN rtn
  ELSE subsetOfByDeepEqual(coll1, coll2, p + 1, someDeepEqual(coll1[p], coll2))

subsetOf(coll1, coll2) ==
  IF Len(coll1) <= Len(coll2) THEN
    LET hasPrimitive == somePrimitive(coll1) \/ somePrimitive(coll2)
    IN IF ~hasPrimitive /\ Len(coll1) + Len(coll2) > maxCollSizeForDeepEqual
       THEN LET c2Hash == {hashObject(coll2[j]) : j \in DOMAIN coll2}
            IN ~(\E i \in DOMAIN coll1 : hashObject(coll1[i]) \notin c2Hash)
       ELSE subsetOfByDeepEqual(coll1, coll2, 1, TRUE)
  ELSE FALSE

subsetOfFn(coll1, coll2) == <<subsetOf(coll1, coll2)>>

supersetOfFn(coll1, coll2) == <<subsetOf(coll2, coll1)>>

\* Collections of up to MaxCombineLen items, alone or followed by three
\* more objects, so that two of them have more than
\* maxCollSizeForDeepEqual items together
CombineColls ==
  {b \o p : b \in SeqsUpTo(DistinctItems, MaxCombineLen),
            p \in {<<>>, <<Obj3, Obj3, Obj1>>}}

CombineIdle == nop = "none" /\ n1 = <<>> /\ n2 = <<>> /\ nres = <<>> /\ npc = "idle"

CombineInit ==
  /\ nop \in {"intersect", "exclude", "subsetOf", "supersetOf"}
  /\ n1 \in CombineColls /\ n2 \in CombineColls
  /\ nres = <<>> /\ npc = "call"

Intersect ==
  /\ npc = "call" /\ nop = "intersect"
  /\ nres' = intersect(n1, n2)
  /\ npc' = "done"
  /\ UNCHANGED <<nop, n1, n2>>

Exclude ==
  /\ npc = "call" /\ nop = "exclude"
  /\ nres' = exclude(n1, n2)
  /\ npc' = "done"
  /\ UNCHANGED <<nop, n1, n2>>

SubsetOfFn ==
  /\ npc = "call" /\ nop \in {"subsetOf", "supersetOf"}
  /\ nres' = IF nop = "subsetOf" THEN subsetOfFn(n1, n2) ELSE supersetOfFn(n1, n2)
  /\ npc' = "done"
  /\ UNCHANGED <<nop, n1, n2>>

(***************************************************************************)
(* misc.ts: singletonEvalByType, engine.singleton                          *)
(***************************************************************************)
BigIntOne == [k |-> "bigint", n |-> 1]
NullValue == [k |-> "null"]
UndefinedValue == [k |-> "undefined"]

\* typeof d
typeOfValue(d) ==
  CASE d.k = "num" -> "number"
    [] d.k = "bigint" -> "bigint"
    [] d.k = "str" -> "string"
    [] d.k = "bool" -> "boolean"
    [] d.k = "undefined" -> "undefined"
    [] OTHER -> "object"

\* singletonEvalByType[type](d), with "Boolean" giving undefined for a
\* value that is not a boolean
singletonEvalByTypeStrict(type, d) ==
  CASE type = "Integer" ->
         IF d.k = "num" /\ NumberIsInteger(d.n) THEN d ELSE UndefinedValue
    [] type = "Boolean" -> IF d.k = "bool" THEN d ELSE UndefinedValue
    [] type = "Number" ->
         IF typeOfValue(d) \in {"number", "bigint"} THEN d ELSE UndefinedValue
    [] type = "String" -> IF typeOfValue(d) = "string" THEN d ELSE UndefinedValue
    [] type = "StringOrNumber" ->
         IF typeOfValue(d) \in {"string", "number"} THEN d ELSE UndefinedValue
    [] OTHER -> d

\* singletonEvalByType[type](d)
singletonEvalByType(type, d) ==
  CASE type = "Integer" ->
         IF d.k = "num" /\ NumberIsInteger(d.n) THEN d ELSE UndefinedValue
    [] type = "Boolean" -> IF d.k = "bool" THEN d ELSE Bool(TRUE)
    [] type = "Number" ->
         IF typeOfValue(d) \in {"number", "bigint"} THEN d ELSE UndefinedValue
    [] type = "String" -> IF typeOfValue(d) = "string" THEN d ELSE UndefinedValue
    [] type = "StringOrNumber" ->
         IF typeOfValue(d) \in {"string", "number"} THEN d ELSE UndefinedValue
    [] OTHER -> d

SingletonTypes ==
  {"Integer", "Boolean", "Number", "String", "StringOrNumber", "AnySingletonAtRoot"}

SingletonThrown == [thrown |-> TRUE, value |-> [k |-> "none"]]
SingletonReturned(value) == [thrown |-> FALSE, value |-> value]
EmptyColl == [k |-> "empty"]

\* engine.singleton; the items of the model are plain values, for which
\* util.valData gives the value itself
singleton(coll, type) ==
  IF Len(coll) > 1 THEN SingletonThrown
  ELSE IF Len(coll) = 0 THEN SingletonReturned(EmptyColl)
  ELSE LET v == coll[1]
       IN IF v.k \in {"null", "undefined"} THEN SingletonReturned(EmptyColl)
          ELSE IF type \in SingletonTypes
            THEN LET value == singletonEvalByType(type, v)
                 IN IF value # UndefinedValue THEN SingletonReturned(value)
                    ELSE SingletonThrown
          ELSE SingletonThrown

SingletonItems ==
  {One, Num(Unit + 500000000), BigIntOne, Str(<<"a">>), Bool(TRUE), Bool(FALSE),
   NullValue, Obj3}

SingletonIdle ==
  gcoll = <<>> /\ gtype = "none" /\ gres = SingletonReturned(EmptyColl) /\ gpc = "idle"

SingletonInit ==
  /\ gcoll \in SeqsUpTo(SingletonItems, MaxSingletonLen)
  /\ gtype \in SingletonTypes \cup {"Quantity"}
  /\ gres = SingletonReturned(EmptyColl) /\ gpc = "call"

Singleton ==
  /\ gpc = "call"
  /\ gres' = singleton(gcoll, gtype)
  /\ gpc' = "done"
  /\ UNCHANGED <<gcoll, gtype>>

(***************************************************************************)
(* math.ts: div, intdiv, mod on numbers and bigints                        *)
(***************************************************************************)
NumberOf(n) == [t |-> "number", num |-> n, den |-> 1]
BigIntOf(n) == [t |-> "bigint", num |-> n, den |-> 1]
\* NaN, Infinity and -Infinity
NonFinite == [t |-> "nonfinite", num |-> 0, den |-> 1]
EmptyResult == [t |-> "empty", num |-> 0, den |-> 1]
\* RangeError: Division by zero
RangeError == [t |-> "thrown", num |-> 0, den |-> 1]

AbsOf(n) == IF n < 0 THEN -n ELSE n

\* The quotient rounded towards zero, as the / of bigints does
truncDiv(x, y) ==
  LET q == AbsOf(x) \div AbsOf(y)
  IN IF (x < 0) = (y < 0) THEN q ELSE -q

\* The remainder with the sign of the dividend, as % does
remainder(x, y) == x - truncDiv(x, y) * y

RECURSIVE gcd(_, _)
gcd(a, b) == IF b = 0 THEN a ELSE gcd(b, a % b)

\* x / y of two numbers holding integers: the quotient as a fraction in
\* lowest terms, or a non-finite number for y = 0
numberDiv(x, y) ==
  IF y = 0 THEN NonFinite
  ELSE LET g == gcd(AbsOf(x), AbsOf(y))
           s == IF y < 0 THEN -1 ELSE 1
       IN [t |-> "number", num |-> s * (x \div g), den |-> s * (y \div g)]

\* Math.floor(x / y) of two numbers holding integers
mathFloorDiv(x, y) ==
  IF y = 0 THEN NonFinite
  ELSE LET q == truncDiv(x, y)
       IN NumberOf(IF q * y = x \/ (x < 0) = (y < 0) THEN q ELSE q - 1)

\* x / y of two bigints
bigintDiv(x, y) == IF y = 0 THEN RangeError ELSE BigIntOf(truncDiv(x, y))

\* x % y of two bigints
bigintMod(x, y) == IF y = 0 THEN RangeError ELSE BigIntOf(remainder(x, y))

\* x % y of two numbers holding integers
numberMod(x, y) == IF y = 0 THEN NonFinite ELSE NumberOf(remainder(x, y))

\* y === 0 || y === 0n
isZero(y) == y.num = 0

\* y === 0: a bigint is never strictly equal to a number
isNumberZero(y) == y.t = "number" /\ y.num = 0

\* engine.div of two singletons holding a number or a bigint
div(x, y) ==
  IF isZero(y) THEN EmptyResult ELSE numberDiv(x.num, y.num)

intdiv(x, y) ==
  IF isZero(y) THEN EmptyResult
  ELSE IF x.t = "bigint" /\ y.t = "bigint" THEN bigintDiv(x.num, y.num)
  ELSE mathFloorDiv(x.num, y.num)

mod(x, y) ==
  IF isNumberZero(y) THEN EmptyResult
  ELSE IF x.t = "bigint" /\ y.t = "bigint" THEN bigintMod(x.num, y.num)
  ELSE numberMod(x.num, y.num)

MathOperands ==
  {NumberOf(n) : n \in -MaxMathInt..MaxMathInt}
    \cup {BigIntOf(n) : n \in -MaxMathInt..MaxMathInt}

MathIdle ==
  /\ yop = "none" /\ yx = NumberOf(0) /\ yy = NumberOf(0) /\ yres = EmptyResult
  /\ ypc = "idle"

MathInit ==
  /\ yop \in {"div", "intdiv", "mod"}
  /\ yx \in MathOperands /\ yy \in MathOperands
  /\ yres = EmptyResult /\ ypc = "call"

Div ==
  /\ ypc = "call" /\ yop = "div"
  /\ yres' = div(yx, yy) /\ ypc' = "done"
  /\ UNCHANGED <<yop, yx, yy>>

IntDiv ==
  /\ ypc = "call" /\ yop = "intdiv"
  /\ yres' = intdiv(yx, yy) /\ ypc' = "done"
  /\ UNCHANGED <<yop, yx, yy>>

Mod ==
  /\ ypc = "call" /\ yop = "mod"
  /\ yres' = mod(yx, yy) /\ ypc' = "done"
  /\ UNCHANGED <<yop, yx, yy>>

(***************************************************************************)
(* Composition: the component under check runs, the others stay idle.      *)
(***************************************************************************)
Idle(c) ==
  /\ (IF c = "logic" THEN TRUE ELSE LogicIdle)
  /\ (IF c = "equality" THEN TRUE ELSE EqualityIdle)
  /\ (IF c = "distinct" THEN TRUE ELSE DistinctIdle)
  /\ (IF c = "repeat" THEN TRUE ELSE RepeatIdle)
  /\ (IF c = "aggregate" THEN TRUE ELSE AggregateIdle)
  /\ (IF c = "iif" THEN TRUE ELSE IifIdle)
  /\ (IF c = "makeChild" THEN TRUE ELSE MakeChildIdle)
  /\ (IF c = "children" THEN TRUE ELSE ChildrenIdle)
  /\ (IF c = "define" THEN TRUE ELSE DefineIdle)
  /\ (IF c = "constants" THEN TRUE ELSE ConstantsIdle)
  /\ (IF c = "weight" THEN TRUE ELSE WeightIdle)
  /\ (IF c = "fetch" THEN TRUE ELSE FetchIdle)
  /\ (IF c = "parse" THEN TRUE ELSE ParseIdle)
  /\ (IF c = "collections" THEN TRUE ELSE CollectionsIdle)
  /\ (IF c = "toQuantity" THEN TRUE ELSE ToQuantityIdle)
  /\ (IF c = "trace" THEN TRUE ELSE TraceIdle)
  /\ (IF c = "strEquiv" THEN TRUE ELSE StrEquivIdle)
  /\ (IF c = "where" THEN TRUE ELSE WhereIdle)
  /\ (IF c = "combine" THEN TRUE ELSE CombineIdle)
  /\ (IF c = "singleton" THEN TRUE ELSE SingletonIdle)
  /\ (IF c = "math" THEN TRUE ELSE MathIdle)

Frame(c) ==
  /\ (IF c = "logic" THEN TRUE ELSE UNCHANGED varsLogic)
  /\ (IF c = "equality" THEN TRUE ELSE UNCHANGED varsEquality)
  /\ (IF c = "distinct" THEN TRUE ELSE UNCHANGED varsDistinct)
  /\ (IF c = "repeat" THEN TRUE ELSE UNCHANGED varsRepeat)
  /\ (IF c = "aggregate" THEN TRUE ELSE UNCHANGED varsAggregate)
  /\ (IF c = "iif" THEN TRUE ELSE UNCHANGED varsIif)
  /\ (IF c = "makeChild" THEN TRUE ELSE UNCHANGED varsMakeChild)
  /\ (IF c = "children" THEN TRUE ELSE UNCHANGED varsChildren)
  /\ (IF c = "define" THEN TRUE ELSE UNCHANGED varsDefine)
  /\ (IF c = "constants" THEN TRUE ELSE UNCHANGED varsConstants)
  /\ (IF c = "weight" THEN TRUE ELSE UNCHANGED varsWeight)
  /\ (IF c = "fetch" THEN TRUE ELSE UNCHANGED varsFetch)
  /\ (IF c = "parse" THEN TRUE ELSE UNCHANGED varsParse)
  /\ (IF c = "collections" THEN TRUE ELSE UNCHANGED varsCollections)
  /\ (IF c = "toQuantity" THEN TRUE ELSE UNCHANGED varsToQuantity)
  /\ (IF c = "trace" THEN TRUE ELSE UNCHANGED varsTrace)
  /\ (IF c = "strEquiv" THEN TRUE ELSE UNCHANGED varsStrEquiv)
  /\ (IF c = "where" THEN TRUE ELSE UNCHANGED varsWhere)
  /\ (IF c = "combine" THEN TRUE ELSE UNCHANGED varsCombine)
  /\ (IF c = "singleton" THEN TRUE ELSE UNCHANGED varsSingleton)
  /\ (IF c = "math" THEN TRUE ELSE UNCHANGED varsMath)

InitLogic == LogicInit /\ Idle("logic")
NextLogic ==
  \/ OrOp /\ Frame("logic")
  \/ AndOp /\ Frame("logic")
  \/ XorOp /\ Frame("logic")
  \/ ImpliesOp /\ Frame("logic")
  \/ LogicChain /\ Frame("logic")
SpecLogic == InitLogic /\ [][NextLogic]_vars

InitEquality == EqualityInit /\ Idle("equality")
NextEquality ==
  \/ Equal /\ Frame("equality")
  \/ Unequal /\ Frame("equality")
  \/ Equival /\ Frame("equality")
  \/ Unequival /\ Frame("equality")
SpecEquality == InitEquality /\ [][NextEquality]_vars

InitDistinct == DistinctInit /\ Idle("distinct")
NextDistinct ==
  \/ DistinctFn /\ Frame("distinct")
  \/ DistinctFnAgain /\ Frame("distinct")
SpecDistinct == InitDistinct /\ [][NextDistinct]_vars

InitRepeat == RepeatInit /\ Idle("repeat")
NextRepeat ==
  \/ RepeatMacro /\ Frame("repeat")
  \/ RepeatMacroPending /\ Frame("repeat")
  \/ RepeatResolved /\ Frame("repeat")
SpecRepeat == InitRepeat /\ [][NextRepeat]_vars
\* The calls of repeatMacro run to completion and pending results resolve.
SpecRepeatFair == SpecRepeat /\ WF_vars(NextRepeat)

InitAggregate == AggregateInit /\ Idle("aggregate")
NextAggregate ==
  \/ AggregateMacro /\ Frame("aggregate")
  \/ AggregateResolved /\ Frame("aggregate")
SpecAggregate == InitAggregate /\ [][NextAggregate]_vars

InitIif == IifInit /\ Idle("iif")
NextIif ==
  \/ IifMacro /\ Frame("iif")
  \/ IifResolved /\ Frame("iif")
SpecIif == InitIif /\ [][NextIif]_vars

InitMakeChild == MakeChildInit /\ Idle("makeChild")
NextMakeChild == MakeChildResNodes /\ Frame("makeChild")
SpecMakeChild == InitMakeChild /\ [][NextMakeChild]_vars

InitMakeChildArrays == MakeChildArraysInit /\ Idle("makeChild")
SpecMakeChildArrays == InitMakeChildArrays /\ [][NextMakeChild]_vars

InitChildren == ChildrenInit /\ Idle("children")
NextChildren == Children /\ Frame("children")
SpecChildren == InitChildren /\ [][NextChildren]_vars

InitDefine == DefineInit /\ Idle("define")
NextDefine == DefineVariable /\ Frame("define")
SpecDefine == InitDefine /\ [][NextDefine]_vars

InitConstants == ConstantsInit /\ Idle("constants")
NextConstants ==
  \/ ClockTick /\ Frame("constants")
  \/ \E e \in Evaluations :
       \/ Reset(e) /\ Frame("constants")
       \/ NowFn(e) /\ Frame("constants")
       \/ TodayFn(e) /\ Frame("constants")
       \/ TimeOfDayFn(e) /\ Frame("constants")
       \/ EvalSuspend(e) /\ Frame("constants")
       \/ EvalResume(e) /\ Frame("constants")
       \/ EvalDone(e) /\ Frame("constants")
SpecConstants == InitConstants /\ [][NextConstants]_vars

InitWeight == WeightInit /\ Idle("weight")
NextWeight ==
  \/ WeightClockTick /\ Frame("weight")
  \/ AddWeight /\ Frame("weight")
SpecWeight == InitWeight /\ [][NextWeight]_vars

InitFetch == FetchInit /\ Idle("fetch")
NextFetch ==
  \/ FetchClockTick /\ Frame("fetch")
  \/ FetchWithCache /\ Frame("fetch")
  \/ FetchSettled /\ Frame("fetch")
SpecFetch == InitFetch /\ [][NextFetch]_vars

InitParse == ParseInit /\ Idle("parse")
NextParse ==
  \/ SyntaxError /\ Frame("parse")
  \/ Parse /\ Frame("parse")
SpecParse == InitParse /\ [][NextParse]_vars

InitCollections == CollectionsInit /\ Idle("collections")
NextCollections ==
  \/ Membership /\ Frame("collections")
  \/ Booleans /\ Frame("collections")
SpecCollections == InitCollections /\ [][NextCollections]_vars

InitToQuantity == ToQuantityInit /\ Idle("toQuantity")
NextToQuantity == ToQuantity /\ Frame("toQuantity")
SpecToQuantity == InitToQuantity /\ [][NextToQuantity]_vars

InitTrace == TraceInit /\ Idle("trace")
NextTrace ==
  \/ TraceFn /\ Frame("trace")
  \/ TraceResolved /\ Frame("trace")
SpecTrace == InitTrace /\ [][NextTrace]_vars

InitStrEquiv == StrEquivInit /\ Idle("strEquiv")
NextStrEquiv ==
  DeepEqualFuzzy /\ Frame("strEquiv")
SpecStrEquiv == InitStrEquiv /\ [][NextStrEquiv]_vars

InitWhere == WhereInit /\ Idle("where")
NextWhere ==
  \/ WhereMacro /\ Frame("where")
  \/ CriterionResolved /\ Frame("where")
  \/ AllResolved /\ Frame("where")
SpecWhere == InitWhere /\ [][NextWhere]_vars

InitCombine == CombineInit /\ Idle("combine")
NextCombine ==
  \/ Intersect /\ Frame("combine")
  \/ Exclude /\ Frame("combine")
  \/ SubsetOfFn /\ Frame("combine")
SpecCombine == InitCombine /\ [][NextCombine]_vars

InitSingleton == SingletonInit /\ Idle("singleton")
NextSingleton ==
  Singleton /\ Frame("singleton")
SpecSingleton == InitSingleton /\ [][NextSingleton]_vars

InitMath == MathInit /\ Idle("math")
NextMath ==
  \/ Div /\ Frame("math")
  \/ IntDiv /\ Frame("math")
  \/ Mod /\ Frame("math")
SpecMath == InitMath /\ [][NextMath]_vars

Init ==
  \/ InitLogic \/ InitEquality \/ InitDistinct \/ InitRepeat \/ InitAggregate
  \/ InitIif \/ InitMakeChild \/ InitMakeChildArrays \/ InitChildren
  \/ InitDefine \/ InitConstants \/ InitWeight \/ InitFetch
  \/ InitParse \/ InitCollections \/ InitToQuantity
  \/ InitTrace
  \/ InitStrEquiv
  \/ InitWhere
  \/ InitCombine
  \/ InitSingleton
  \/ InitMath
Next ==
  \/ NextLogic \/ NextEquality \/ NextDistinct \/ NextRepeat \/ NextAggregate
  \/ NextIif \/ NextMakeChild \/ NextChildren
  \/ NextDefine \/ NextConstants \/ NextWeight \/ NextFetch
  \/ NextParse \/ NextCollections \/ NextToQuantity
  \/ NextTrace
  \/ NextStrEquiv
  \/ NextWhere
  \/ NextCombine
  \/ NextSingleton
  \/ NextMath
Spec == Init /\ [][Next]_vars

(***************************************************************************)
(* C1.  For operands drawn from {true, false, empty}, orOp, andOp, xorOp   *)
(* and impliesOp return the FHIRPath three-valued truth-table value, and   *)
(* or, and, xor are commutative.                                           *)
(***************************************************************************)
TruthTable(op, a, b) ==
  CASE op = "or" ->
         IF a = "true" \/ b = "true" THEN "true"
         ELSE IF a = "false" /\ b = "false" THEN "false" ELSE "empty"
    [] op = "and" ->
         IF a = "false" \/ b = "false" THEN "false"
         ELSE IF a = "true" /\ b = "true" THEN "true" ELSE "empty"
    [] op = "xor" ->
         IF a = "empty" \/ b = "empty" THEN "empty"
         ELSE IF a # b THEN "true" ELSE "false"
    [] op = "implies" ->
         IF a = "false" \/ b = "true" THEN "true"
         ELSE IF a = "true" /\ b = "false" THEN "false" ELSE "empty"

Swapped(op, a, b) ==
  CASE op = "or" -> orOp(b, a)
    [] op = "and" -> andOp(b, a)
    [] op = "xor" -> xorOp(b, a)
    [] op = "implies" -> impliesOp(a, b)

C1_TruthTables ==
  lpc = "done" =>
    /\ lres = TruthTable(lop, la, lb)
    /\ lres = Swapped(lop, la, lb)

C1_Witness ==
  /\ lpc = "done" /\ lop = "or" /\ la = "false" /\ lb = "empty"
  /\ lres = "empty" /\ ldepth > 0

(***************************************************************************)
(* C2.  equal and unequal return the empty collection whenever an operand  *)
(* is the empty collection; when both operands are non-empty, unequal      *)
(* returns the boolean negation of equal.                                  *)
(***************************************************************************)
C2_EmptyOperandGivesEmpty ==
  (epc = "done" /\ eop \in {"equal", "unequal"}) =>
    IF isEmpty(ea) \/ isEmpty(eb)
    THEN eres = "empty"
    ELSE /\ eres \in {"true", "false"}
         /\ eop = "unequal" => eres # equal(ea, eb)

\* The part of C2 the code does satisfy: equal, and unequal of non-empty
\* operands.
C2_EqualAndNonEmptyUnequal ==
  (epc = "done" /\ eop \in {"equal", "unequal"}) =>
    IF isEmpty(ea) \/ isEmpty(eb)
    THEN eop = "equal" => eres = "empty"
    ELSE /\ eres \in {"true", "false"}
         /\ eop = "unequal" => eres # equal(ea, eb)

(***************************************************************************)
(* C3.  equival yields true when both operands are empty and for c ~ c     *)
(* with c non-empty; equal of two empty operands yields empty.             *)
(***************************************************************************)
IsTrueResult(r) == r \in {"true", "[true]"}

C3_EquivalenceReflexive ==
  (epc = "done" /\ ea = eb) =>
    /\ eop = "equival" => IsTrueResult(eres)
    /\ (eop = "equal" /\ isEmpty(ea)) => eres = "empty"

C3_Witness ==
  /\ epc = "done" /\ eop = "equival" /\ ea = eb /\ Len(ea) = 2
  /\ ea[1] = Obj1 /\ ea[2] = Str(<<"a">>) /\ eres = "true"

(***************************************************************************)
(* C4.  distinctFn is idempotent, element for element; its result holds no *)
(* two deep-equal items, holds an item deep-equal to every item of the     *)
(* input and keeps the items in order of first occurrence, whichever       *)
(* strategy each pass takes.                                               *)
(***************************************************************************)
\* The items of c that are deep-equal to no earlier item of c, in order.
FirstOccurrences(c) ==
  LET keep == {i \in DOMAIN c : \A j \in 1..(i - 1) : ~deepEqual(c[j], c[i], FALSE)}
      idx == SortKeys(keep)
  IN [n \in DOMAIN idx |-> c[idx[n]]]

NoTwoDeepEqual(c) ==
  \A i, j \in DOMAIN c : i # j => ~deepEqual(c[i], c[j], FALSE)

UsesHash(c) == ~somePrimitive(c) /\ Len(c) > maxCollSizeForDeepEqual

C4_DistinctIdempotent ==
  /\ dpc \in {"once", "twice"} =>
       /\ NoTwoDeepEqual(dres1)
       /\ \A i \in DOMAIN dx : \E j \in DOMAIN dres1 : deepEqual(dres1[j], dx[i], FALSE)
       /\ dres1 = FirstOccurrences(dx)
  /\ dpc = "twice" => dres2 = dres1

\* hash strategy on the first pass, deep comparison on the second
C4_Witness ==
  /\ dpc = "twice" /\ UsesHash(dx) /\ ~UsesHash(dres1)
  /\ Len(dres1) = 2 /\ dres2 = dres1 /\ dx[1] = Obj2 /\ dx[2] = Obj1

\* hash strategy on both passes
C4_WitnessHashTwice ==
  dpc = "twice" /\ UsesHash(dx) /\ UsesHash(dres1) /\ Len(dx) > Len(dres1)

(***************************************************************************)
(* C5.  repeatMacro terminates for every input and every projection over a *)
(* finite set of items, cyclic structures included: eventually a round     *)
(* yields no new item and the accumulated result is returned.              *)
(***************************************************************************)
C5_RepeatTerminates == <>(rpc = "done")

C5_Witness == rpc = "done" /\ rcyclic /\ rused = {"deep", "hash"} /\ Len(rres) > 2

(***************************************************************************)
(* C6.  Every round of repeatMacro deduplicates the projected items        *)
(* against the whole running result: state.res never holds two deep-equal  *)
(* items, whichever strategy the rounds took.                              *)
(***************************************************************************)
C6_ResultHasNoDuplicates == NoTwoDeepEqual(rres)

\* What the code does guarantee: no duplicates as long as only the
\* deep-equal strategy has been taken.
C6_NoDuplicatesWhileDeepEqualOnly == ("hash" \notin rused) => NoTwoDeepEqual(rres)

(***************************************************************************)
(* C7.  aggregateMacro is a strict left-to-right fold: the k-th evaluation *)
(* of expr (k = 0, 1, ...) observes $index = k and $total equal to the     *)
(* value of evaluation k-1 (initialValue for k = 0), with synchronous and  *)
(* with pending results alike; the value delivered is the last             *)
(* evaluation's (initialValue for an empty input).                         *)
(***************************************************************************)
C7_StrictLeftFold ==
  /\ Len(alog) = Len(avals) /\ Len(alog) <= Len(adata)
  /\ \A k \in DOMAIN alog :
       /\ alog[k].index = k - 1
       /\ alog[k].total = Val(IF k = 1 THEN ainit ELSE avals[k - 1])
  /\ apc = "done" =>
       /\ Len(alog) = Len(adata)
       /\ ares = Val(IF adata = <<>> THEN ainit ELSE avals[Len(adata)])

C7_Witness ==
  /\ apc = "done" /\ Len(adata) = MaxAggLen
  /\ ~aasync[1] /\ aasync[2] /\ ~aasync[3]
  /\ avals[3] # avals[2]

(***************************************************************************)
(* C8.  iifMacro is lazy: the condition is evaluated exactly once and at   *)
(* most one branch closure, at most once: ok iff the condition is a        *)
(* singleton true, otherwise fail when it is given, otherwise none and the *)
(* result is empty.  With a pending condition no branch is evaluated       *)
(* before the condition has resolved.                                      *)
(***************************************************************************)
SingletonTrue(c) ==
  \/ c = Bare("true")
  \/ c \in {Coll(<<"true">>), Coll(<<"nodeTrue">>)}

C8_IifLazy ==
  /\ icondEvals <= 1 /\ iokEvals + ifailEvals <= 1
  /\ ipc = "pending" => icondEvals = 1 /\ iokEvals = 0 /\ ifailEvals = 0
  /\ ipc = "done" =>
       /\ icondEvals = 1
       /\ iokEvals = 1 <=> SingletonTrue(icond)
       /\ ifailEvals = 1 <=> ~SingletonTrue(icond) /\ ihasFail
       /\ ires = (IF SingletonTrue(icond) THEN "ok"
                  ELSE IF ihasFail THEN "fail" ELSE "empty")

C8_Witness ==
  /\ ipc = "done" /\ iasync /\ ihasFail /\ ires = "fail"
  /\ icond = Coll(<<"true", "true">>)

(***************************************************************************)
(* C9.  engine.children expands, for each node of the input whose data is  *)
(* an object, every property name exactly once: a property p present with  *)
(* its underscore sibling _p once, through p; a property present only as   *)
(* _p once, under the stripped name p; the key resourceType is not         *)
(* expanded; items that are not ResourceNodes contribute nothing.  The     *)
(* nodes yielded are the child nodes of the expanded names.  The claim     *)
(* has resourceType never expanded at all; the code expands it as the      *)
(* stripped name of a key _resourceType that has no sibling.               *)
(***************************************************************************)
C9_Keys(x) == {x.data.props[i][1] : i \in DOMAIN x.data.props}

\* The names the claim has expanded for a node of object data
C9_Names(x) ==
  {k \in C9_Keys(x) : Head(k) # "_" /\ k # <<"resourceType">>}
    \cup {Tail(k) : k \in {q \in C9_Keys(x) : Head(q) = "_" /\ Tail(q) \notin C9_Keys(x)}}

C9_CallsOf(i, name) == Cardinality({n \in DOMAIN ccalls : ccalls[n] = <<i, name>>})

C9_AllNames == {ccalls[n][2] : n \in DOMAIN ccalls} \cup UNION {{k, Tail(k)} : k \in ChildKeys}

\* The nodes of the result, call by call
RECURSIVE C9_NodesOfCalls(_)
C9_NodesOfCalls(n) ==
  IF n = 0 THEN <<>>
  ELSE C9_NodesOfCalls(n - 1)
         \o makeChildResNodes(ccoll[ccalls[n][1]], ccalls[n][2], cmodel)

C9_ExpandsEachNameOnce ==
  cpc = "done" =>
    /\ \A i \in DOMAIN ccoll :
         /\ ccoll[i].t # "node" => \A name \in C9_AllNames : C9_CallsOf(i, name) = 0
         /\ ccoll[i].t = "node" /\ ccoll[i].data.t = "object" =>
              \A name \in C9_AllNames :
                C9_CallsOf(i, name) = (IF name \in C9_Names(ccoll[i]) THEN 1 ELSE 0)
    /\ cresult = C9_NodesOfCalls(Len(ccalls))

\* The claim as stated: moreover resourceType is never expanded.
C9_ResourceTypeNeverExpanded ==
  /\ C9_ExpandsEachNameOnce
  /\ \A n \in DOMAIN ccalls : ccalls[n][2] # <<"resourceType">>

\* A node with a and _a, and with _b alone, beside a plain value
C9_Witness ==
  /\ cpc = "done" /\ Len(ccoll) = 2 /\ ccoll[1].t = "node" /\ ccoll[2].t = "prim"
  /\ ccoll[1].data.t = "object"
  /\ C9_Keys(ccoll[1]) = {<<"a">>, <<"_", "a">>, <<"_", "b">>}
  /\ {ccalls[n] : n \in DOMAIN ccalls} = {<<1, <<"a">>>>, <<1, <<"b">>>>}
  /\ Len(cresult) = 2

\* A node with resourceType and a: only a is expanded.
C9_WitnessResourceType ==
  /\ cpc = "done" /\ Len(ccoll) = 1 /\ ccoll[1].t = "node" /\ ccoll[1].data.t = "object"
  /\ C9_Keys(ccoll[1]) = {<<"resourceType">>, <<"a">>}
  /\ ccalls = << <<1, <<"a">>>> >>

(***************************************************************************)
(* C10.  For a child property whose path is listed in                      *)
(* model.choiceTypePaths, makeChildResNodes uses the first candidate       *)
(* suffix t, in list order, for which property+t or its underscore sibling *)
(* is defined on the parent's data; the nodes carry that field's value and *)
(* the path of the concrete subtype; with no candidate field defined the   *)
(* result is empty.  The claim takes the concrete path to be parent path + *)
(* property + t; the code canonicalizes the path through                   *)
(* pathsDefinedElsewhere before the probe and maps the probed path through *)
(* path2TypeWithoutElements after it.                                      *)
(***************************************************************************)
\* The path the choice is looked up under
C10_LookupPath ==
  LET p == mparent.path \o <<".">> \o mprop
  IN IF p \in DOMAIN mmodel.pathsDefinedElsewhere
     THEN mmodel.pathsDefinedElsewhere[p] ELSE p

C10_IsChoice == mmodel.defined /\ C10_LookupPath \in DOMAIN mmodel.choiceTypePaths

C10_Types == mmodel.choiceTypePaths[C10_LookupPath]

C10_FieldDefined(i) ==
  \/ hasOwnProperty(mparent.data, mprop \o <<C10_Types[i]>>)
  \/ hasOwnProperty(mparent.data, <<"_">> \o mprop \o <<C10_Types[i]>>)

C10_Firsts ==
  {i \in DOMAIN C10_Types : C10_FieldDefined(i) /\ \A j \in 1..(i - 1) : ~C10_FieldDefined(j)}

\* The nodes carry the value of the field of suffix t: a node for each item
\* of a list, one node for a single value, none for a value that is null or
\* missing with no associated data.
C10_NodesCarry(t, path) ==
  LET value == Get(mparent.data, mprop \o <<t>>)
      assoc == Get(mparent.data, <<"_">> \o mprop \o <<t>>)
  IN /\ \A n \in DOMAIN mresult : mresult[n].path = path /\ mresult[n].propName = mprop
     /\ (mresult # <<>>) <=> (isSome(value) \/ isSome(assoc))
     /\ IF value.t = "array"
        THEN /\ Len(mresult) >= Len(value.items)
             /\ \A n \in DOMAIN value.items : mresult[n].data = value.items[n]
        ELSE IF isSome(value)
        THEN Len(mresult) = 1 /\ mresult[1].data = value /\ mresult[1].udata = assoc
        ELSE \A n \in DOMAIN mresult :
               /\ mresult[n].data \in {Null, value}
               /\ mresult[n].udata = (IF assoc.t = "array" THEN assoc.items[n] ELSE assoc)

C10_ChoiceTypeProbe ==
  mpc = "done" /\ C10_IsChoice =>
    IF C10_Firsts = {} THEN mresult = <<>>
    ELSE LET t == C10_Types[CHOOSE i \in C10_Firsts : TRUE]
             concrete == C10_LookupPath \o <<t>>
         IN C10_NodesCarry(t, IF concrete \in DOMAIN mmodel.path2TypeWithoutElements
                              THEN mmodel.path2TypeWithoutElements[concrete]
                              ELSE concrete)

\* The claim as stated: the path is parent path + property + t.
C10_ChoiceTypeProbeParentPath ==
  mpc = "done" /\ C10_IsChoice =>
    IF C10_Firsts = {} THEN mresult = <<>>
    ELSE LET t == C10_Types[CHOOSE i \in C10_Firsts : TRUE]
         IN C10_NodesCarry(t, mparent.path \o <<".">> \o mprop \o <<t>>)

\* The second candidate is taken, under a path the model maps: String is
\* probed first and is not there.
C10_Witness ==
  /\ mpc = "done" /\ mmodel = ElsewhereChoiceModel /\ mprop = <<"value">>
  /\ hasOwnProperty(mparent.data, <<"value", "Quantity">>)
  /\ hasOwnProperty(mparent.data, <<"_", "value", "Quantity">>)
  /\ Len(mresult) = 2

\* Both candidates are there: the first of the list is taken.
C10_WitnessFirstOfTwo ==
  /\ mpc = "done" /\ mmodel = TypedChoiceModel /\ mprop = <<"value">>
  /\ hasOwnProperty(mparent.data, <<"value", "String">>)
  /\ hasOwnProperty(mparent.data, <<"value", "Quantity">>)
  /\ Len(mresult) = 1 /\ mresult[1].path = <<"Quantity">>

(***************************************************************************)
(* C11.  For a property whose value is an array v of length n with a       *)
(* sibling array m of length k, makeChildResNodes creates max(n, k) nodes  *)
(* in index order; node i carries v[i] (null for i >= n) and m[i] (none    *)
(* for i >= k); and no created node has both data and _data null.          *)
(***************************************************************************)
C11_V == Get(mparent.data, <<"a">>)
C11_M == Get(mparent.data, <<"_", "a">>)
C11_Case == mpc = "done" /\ mprop = <<"a">> /\ C11_V.t = "array" /\ C11_M.t = "array"

\* The count, the order and the pairing by index
C11_PairedByIndex ==
  C11_Case =>
    LET n == Len(C11_V.items)
        k == Len(C11_M.items)
    IN /\ Len(mresult) = (IF n >= k THEN n ELSE k)
       /\ \A i \in DOMAIN mresult :
            /\ mresult[i].index = i - 1
            /\ mresult[i].data = (IF i <= n THEN C11_V.items[i] ELSE Null)
            /\ mresult[i].udata = (IF i <= k THEN C11_M.items[i] ELSE Undefined)

\* The claim as stated: moreover no node has neither data nor _data.
C11_NoNodeWithoutDataAndMetadata ==
  /\ C11_PairedByIndex
  /\ C11_Case =>
       \A i \in DOMAIN mresult :
         ~(mresult[i].data.t \in {"null", "undefined"}
             /\ mresult[i].udata.t \in {"null", "undefined"})

(***************************************************************************)
(* C12.  Over any sequence of defineVariable calls on one context a        *)
(* variable is write-once: a call whose name is already in vars,           *)
(* processedVars or definedVars throws and leaves every binding of         *)
(* definedVars unchanged, so no binding is ever overwritten; a successful  *)
(* call binds the name to the expression's value, or to the input when no  *)
(* expression is given, and returns its input.                             *)
(***************************************************************************)
C12_Known(label) ==
  \/ label \in vvars.keys
  \/ label \in vprocessed.keys
  \/ label \in DOMAIN vdefined

C12_CallStep ==
  /\ \A n \in DOMAIN vdefined : n \in DOMAIN vdefined' /\ vdefined'[n] = vdefined[n]
  /\ C12_Known(vlast'.label) => vlast'.thrown # "none" /\ vdefined' = vdefined
  /\ vlast'.thrown # "none" => vdefined' = vdefined
  /\ vlast'.thrown = "none" =>
       /\ vlast'.label \in DOMAIN vdefined'
       /\ vdefined'[vlast'.label] = (IF vlast'.hasExpr THEN vlast'.x + 10 ELSE vlast'.x)
       /\ vlast'.ret = vlast'.x
       /\ DOMAIN vdefined' = DOMAIN vdefined \cup {vlast'.label}

C12_WriteOnce == [][vcalls' = vcalls + 1 => C12_CallStep]_vars

\* A second definition of a has thrown, and a keeps its first value.
C12_Witness ==
  /\ vcalls = 3 /\ vlast.label = "a" /\ vlast.thrown = "Variable already defined"
  /\ vlast.x = 2 /\ ~vlast.hasExpr
  /\ DOMAIN vdefined = {"a", "toString"} /\ vdefined["a"] = 11

(***************************************************************************)
(* C13.  All calls of now(), today() and timeOfDay() made during one       *)
(* evaluation return values derived from the instant its reset() captured, *)
(* also when another evaluation starts while the first is suspended on a   *)
(* fetch.                                                                  *)
(***************************************************************************)
C13_Derived(fn, d) ==
  CASE fn = "now" -> isoDateTime(d)
    [] fn = "today" -> isoDate(d)
    [] OTHER -> isoTime(d)

C13_ValuesFromOwnInstant ==
  \A e \in Evaluations : \A r \in kreturned[e] : r[2] = C13_Derived(r[1], kstart[e])

\* What the code does guarantee: the values come from the latest reset.
C13_ValuesFromLatestReset ==
  /\ know # -1 => know = isoDateTime(knowDate)
  /\ ktoday # -1 => ktoday = isoDate(knowDate)
  /\ ktimeOfDay # -1 => ktimeOfDay = isoTime(knowDate)

(***************************************************************************)
(* C14.  With the async option off weight() never yields a pending         *)
(* result: every lookup gives its score synchronously or throws, and one   *)
(* that only the terminology server can answer throws, whatever earlier    *)
(* evaluations have left in the score cache.                               *)
(***************************************************************************)
C14_NoPendingWithoutAsync ==
  wcalls > 0 /\ ~wlast.async =>
    /\ wlast.thrown \/ wlast.score.t # "promise"
    /\ wlast.needsServer => wlast.thrown

\* What the code does guarantee: no pending result from the resources.
C14_NoPendingFromResources ==
  wcalls > 0 /\ ~wlast.async /\ wlast.computed =>
    /\ wlast.thrown \/ wlast.score.t # "promise"
    /\ wlast.needsServer => wlast.thrown

(***************************************************************************)
(* C15.  A call of fetchWithCache whose key has an entry no more than one  *)
(* hour old returns the promise of that entry and makes no fetch, whether  *)
(* or not the first request is still in flight; every entry older than one *)
(* hour is removed by the call, whatever its key, and a call whose key has *)
(* no entry or an entry older than one hour makes one new fetch and        *)
(* returns a new promise.                                                  *)
(***************************************************************************)
C15_Age(k) == fclock - fcache[k].timestamp

C15_Fresh(k) == k \in DOMAIN fcache /\ C15_Age(k) <= 3600000

C15_CallStep ==
  LET key == flast'.key
  IN /\ C15_Fresh(key) =>
          /\ flast'.promise = fcache[key].promise
          /\ ffetches' = ffetches
     /\ ~C15_Fresh(key) =>
          /\ ffetches' = ffetches + 1
          /\ flast'.promise = ffetches'
          /\ \A k \in DOMAIN fcache : fcache[k].promise # flast'.promise
          /\ fcache'[key] = [timestamp |-> fclock, promise |-> flast'.promise]
     /\ \A k \in DOMAIN fcache \ {key} :
          IF C15_Fresh(k) THEN k \in DOMAIN fcache' /\ fcache'[k] = fcache[k]
          ELSE k \notin DOMAIN fcache'

C15_OneFetchPerHour ==
  [][flast' # flast \/ fcache' # fcache \/ ffetches' # ffetches => C15_CallStep]_vars

\* A second call with the key of a request still in flight, exactly one
\* hour after it, has returned the promise of the first.
C15_Witness ==
  /\ ffetches = 1 /\ fsettled = {} /\ flast.promise = 1 /\ ~flast.fetched
  /\ fclock - fcache[flast.key].timestamp = 3600000

\* A call has removed the entry of another key and made a second fetch.
C15_WitnessRemoved ==
  /\ ffetches = 2 /\ DOMAIN fcache = {flast.key} /\ flast.promise = 2 /\ flast.fetched

(***************************************************************************)
(* C30.  A call of fetchWithCache whose key has an entry with a rejected   *)
(* promise makes a new fetch and does not return the rejected promise.     *)
(***************************************************************************)
C30_RejectedEntry(k) == k \in DOMAIN fcache /\ fcache[k].promise \in frejected

C30_RejectedNotServed ==
  [][flast' # flast /\ C30_RejectedEntry(flast'.key) =>
       /\ flast'.fetched
       /\ flast'.promise \notin frejected]_vars

\* What the code does guarantee: the rejected promise leaves the cache with
\* its entry, when the entry is older than one hour.
C30_RejectedServedWhileFresh ==
  [][flast' # flast /\ C30_RejectedEntry(flast'.key) =>
       IF C15_Fresh(flast'.key)
       THEN ~flast'.fetched /\ flast'.promise = fcache[flast'.key].promise
       ELSE flast'.fetched /\ flast'.promise \notin frejected]_vars

(***************************************************************************)
(* C16.  Every score weight() obtains from a value set or code system is   *)
(* stored in the score cache under its key, is served from the cache       *)
(* without recomputation to every lookup with that key made less than one  *)
(* hour later, and is recomputed by a lookup made one hour or more later;  *)
(* for every score value, 0 included.                                      *)
(***************************************************************************)
C16_Obtained == wcalls > 0 /\ wlast.computed /\ ~wlast.thrown
                  /\ wlast.score.t \in {"number", "promise"}

C16_ScoresCachedAndServed ==
  /\ C16_Obtained =>
       wlast.stored
  /\ wcalls > 0 /\ wlast.cachedBefore =>
       (wlast.computed <=> wlast.age >= cacheStorageTime)

\* What the code does guarantee: the same for every score but 0.
C16_NonZeroScoresCachedAndServed ==
  /\ C16_Obtained /\ wlast.score # ScoreNum(0) =>
       wlast.stored
  /\ wcalls > 0 /\ wlast.cachedBefore =>
       (wlast.computed <=> wlast.age >= cacheStorageTime)

C18_SingletonErrorAlways ==
  qpc = "done" =>
    /\ qop = "contains" /\ Len(qb) >= 2 => qres.thrown
    /\ qop = "in" /\ Len(qa) >= 2 => qres.thrown

\* What the code does guarantee: the error when the other operand is not
\* empty, and false when it is.
C18_SingletonErrorUnlessOtherEmpty ==
  qpc = "done" =>
    /\ qop = "contains" /\ Len(qb) >= 2 =>
         IF Len(qa) = 0 THEN qres = Returned("false") ELSE qres.thrown
    /\ qop = "in" /\ Len(qa) >= 2 =>
         IF Len(qb) = 0 THEN qres = Returned("false") ELSE qres.thrown

(***************************************************************************)
(* C19.  allTrue, anyTrue, allFalse and anyFalse raise a type error        *)
(* whenever the input has an item that is not a boolean, wherever it is    *)
(* and whatever comes before it; on booleans they return [true] or [false] *)
(* per their quantifier, with [true] for allTrue and allFalse and [false]  *)
(* for anyTrue and anyFalse of the empty collection.                       *)
(***************************************************************************)
C19_IsBoolean(item) == item \in {"true", "false", "nodeTrue", "nodeFalse"}

C19_Is(item, target) == item \in {target, IF target = "true" THEN "nodeTrue" ELSE "nodeFalse"}

C19_Expected ==
  CASE qop = "allTrue" -> \A i \in 1..Len(qa) : C19_Is(qa[i], "true")
    [] qop = "anyTrue" -> \E i \in 1..Len(qa) : C19_Is(qa[i], "true")
    [] qop = "allFalse" -> \A i \in 1..Len(qa) : C19_Is(qa[i], "false")
    [] OTHER -> \E i \in 1..Len(qa) : C19_Is(qa[i], "false")

C19_TypeErrorForAnyNonBoolean ==
  qpc = "done" /\ qop \in BooleansFns =>
    IF \E i \in 1..Len(qa) : ~C19_IsBoolean(qa[i])
    THEN qres.thrown
    ELSE qres = Returned(<<BoolToken(C19_Expected)>>)

\* What the code does guarantee: the same on booleans, and the type error
\* for a non-boolean item that no deciding item precedes.
C19_Decides(item) ==
  C19_Is(item, IF qop \in {"allTrue", "anyFalse"} THEN "false" ELSE "true")

C19_TypeErrorUnlessDecidedBefore ==
  qpc = "done" /\ qop \in BooleansFns =>
    LET bad == {i \in 1..Len(qa) : ~C19_IsBoolean(qa[i])}
        deciding == {i \in 1..Len(qa) : C19_Decides(qa[i])}
    IN IF bad = {} THEN qres = Returned(<<BoolToken(C19_Expected)>>)
       ELSE qres.thrown <=> \A d \in deciding : \E b \in bad : b < d

(***************************************************************************)
(* C20.  toQuantity(coll, toUnit) returns null exactly when exactly one of *)
(* the unit of the source quantity and toUnit is a calendar duration and   *)
(* that calendar duration is longer than one second; a convertible         *)
(* singleton otherwise gives the converted quantity, also when the source  *)
(* unit and toUnit are the same calendar duration; an empty input gives no *)
(* value.                                                                  *)
(***************************************************************************)
C20_LongerThanSecond(word) ==
  word \in {"year", "month", "week", "day", "hour", "minute"}

C20_SourceWord == tcoll[1].unit[1]
C20_SourceIsCalendar == Len(tcoll[1].unit) = 1

C20_Forbidden ==
  /\ C20_SourceIsCalendar # (ttoUnit \in CalendarUnits)
  /\ IF C20_SourceIsCalendar THEN C20_LongerThanSecond(C20_SourceWord)
     ELSE C20_LongerThanSecond(ttoUnit)

C20_NullExactlyAcrossBoundary ==
  tpc = "done" =>
    /\ Len(tcoll) = 0 => tres.t = "undefined"
    /\ Len(tcoll) = 1 /\ ttoUnit # "undefined" =>
         /\ tres.t = "null" <=> C20_Forbidden
         /\ ~C20_Forbidden => tres.t \in {"quantity", "converted"}
         /\ C20_SourceIsCalendar /\ C20_SourceWord = ttoUnit => tres = tcoll[1]

\* What the code does guarantee: null exactly when toUnit is a calendar
\* duration longer than one second, whatever the unit of the source.
C20_NullExactlyForLongCalendarToUnit ==
  tpc = "done" =>
    /\ Len(tcoll) = 0 => tres.t = "undefined"
    /\ Len(tcoll) = 1 /\ ttoUnit # "undefined" =>
         (tres.t = "null" <=> C20_LongerThanSecond(ttoUnit))

(***************************************************************************)
(* C21.  traceFn returns exactly its input collection, with or without a   *)
(* projection, with or without a custom trace sink, the projection result  *)
(* synchronous or pending (then the returned promise resolves to the       *)
(* input); the sink receives the result of the projection when there is    *)
(* one, the input otherwise.                                               *)
(***************************************************************************)
C21_Traced == IF trexpr.kind = "function" THEN trexpr.result ELSE trx

C21_ReturnsInput ==
  trpc = "done" =>
    /\ trret.kind = (IF trexpr.async THEN "fulfilled" ELSE "value")
    /\ trret.value = trx
    /\ IF trcustom THEN trsink = <<C21_Traced>> /\ trlog = <<>>
       ELSE trlog = <<C21_Traced>> /\ trsink = <<>>

\* What the code does guarantee: the claim when the projection result is
\* synchronous.
C21_ReturnsInputWhenSynchronous ==
  trpc = "done" /\ ~trexpr.async =>
    /\ trret = [kind |-> "value", value |-> trx]
    /\ IF trcustom THEN trsink = <<C21_Traced>> /\ trlog = <<>>
       ELSE trlog = <<C21_Traced>> /\ trsink = <<>>

(***************************************************************************)
(* C22.  Under equivalence two strings are equivalent if and only if they  *)
(* are equal after converting to upper case and collapsing every run of    *)
(* whitespace to a single space.                                           *)
(***************************************************************************)
RECURSIVE C22_CollapseFrom(_, _)
C22_CollapseFrom(s, i) ==
  IF i > Len(s) THEN <<>>
  ELSE IF IsWs(s[i])
    THEN IF i > 1 /\ IsWs(s[i - 1]) THEN C22_CollapseFrom(s, i + 1)
         ELSE <<" ">> \o C22_CollapseFrom(s, i + 1)
  ELSE <<s[i]>> \o C22_CollapseFrom(s, i + 1)

C22_Normal(s) == C22_CollapseFrom(toUpperCase(s), 1)

C22_EquivalentIffEqualNormalized ==
  spc = "done" => (sres <=> C22_Normal(sa) = C22_Normal(sb))

\* What the code does guarantee: the same with only the first run of
\* whitespace collapsed.
C22_EquivalentIffEqualFirstRunCollapsed ==
  spc = "done" =>
    (sres <=> replaceWs(toUpperCase(sa)) = replaceWs(toUpperCase(sb)))

(***************************************************************************)
(* C23.  whereMacro returns the sub-sequence of the input items whose      *)
(* criterion result has a truthy first element, in input order, the same   *)
(* whether the criterion results come synchronously, pending or mixed and  *)
(* whatever order the pending ones resolve in; existsMacro with a          *)
(* criterion returns true exactly when that sub-sequence is not empty.     *)
(***************************************************************************)
RECURSIVE C23_SubSequence(_)
C23_SubSequence(i) ==
  IF i > Len(hcoll) THEN <<>>
  ELSE (IF Len(hconds[i].result) > 0 /\ hconds[i].result[1] \in {"true", "nodeFalse"}
        THEN <<hcoll[i]>> ELSE <<>>) \o C23_SubSequence(i + 1)

C23_WhereIsSubSequence ==
  hpc = "done" =>
    /\ hres = C23_SubSequence(1)
    /\ hop = "exists" => (hexists <=> C23_SubSequence(1) # <<>>)

\* A mixture of synchronous and pending criteria has resolved, with an
\* item dropped between two items kept.
C23_Witness ==
  /\ hpc = "done" /\ Len(hcoll) = 3 /\ hres = <<1, 3>>
  /\ ~hconds[1].async /\ hconds[2].async /\ hconds[3].async
  /\ hconds[1].result = <<"true">> /\ hconds[2].result = <<"false", "true">>
  /\ hconds[3].result = <<"nodeFalse">>

(***************************************************************************)
(* C24.  intersect(c1, c2) returns, in c1 order, the first occurrence of   *)
(* each item of c1 that is deep-equal to some item of c2, with no two      *)
(* deep-equal items in the result; exclude(c1, c2) returns, in order and   *)
(* keeping duplicates, the items of c1 not deep-equal to any item of c2;   *)
(* with the hash strategy as with the deep-equal strategy, provided two    *)
(* items hash equal exactly when they are deep-equal.                      *)
(***************************************************************************)
C24_In(item, coll) == \E j \in DOMAIN coll : deepEqual(item, coll[j], FALSE)

C24_FirstInBoth(i) ==
  /\ C24_In(n1[i], n2)
  /\ \A k \in 1..(i - 1) : ~deepEqual(n1[k], n1[i], FALSE)

RECURSIVE C24_Intersection(_)
C24_Intersection(i) ==
  IF i > Len(n1) THEN <<>>
  ELSE (IF C24_FirstInBoth(i) THEN <<n1[i]>> ELSE <<>>) \o C24_Intersection(i + 1)

RECURSIVE C24_Difference(_)
C24_Difference(i) ==
  IF i > Len(n1) THEN <<>>
  ELSE (IF ~C24_In(n1[i], n2) THEN <<n1[i]>> ELSE <<>>) \o C24_Difference(i + 1)

C24_HashAgrees ==
  \A a, b \in {n1[i] : i \in DOMAIN n1} \cup {n2[j] : j \in DOMAIN n2} :
    (hashObject(a) = hashObject(b)) <=> deepEqual(a, b, FALSE)

C24_IntersectAndExclude ==
  npc = "done" /\ C24_HashAgrees =>
    /\ nop = "intersect" =>
         /\ nres = C24_Intersection(1)
         /\ \A i, j \in DOMAIN nres : i # j => ~deepEqual(nres[i], nres[j], FALSE)
    /\ nop = "exclude" => nres = C24_Difference(1)

\* intersect by the hash strategy, on a first collection with a repeated
\* item and an item that is not in the second
C24_Witness ==
  /\ npc = "done" /\ nop = "intersect" /\ C24_HashAgrees
  /\ ~somePrimitive(n1) /\ ~somePrimitive(n2)
  /\ Len(n1) + Len(n2) > 6
  /\ Len(nres) = 2 /\ Len(n1) = 5 /\ n1[1] = Obj2 /\ n1[2] = Obj3

(***************************************************************************)
(* C25.  subsetOfFn(c1, c2) returns [true] if and only if every item of c1 *)
(* is deep-equal to some item of c2, whatever the repetitions in c1 and    *)
(* the sizes of the two collections, and [false] otherwise;                *)
(* supersetOfFn(c1, c2) equals subsetOfFn(c2, c1).                         *)
(***************************************************************************)
C25_Subset(c1, c2) == \A i \in DOMAIN c1 : C24_In(c1[i], c2)

C25_SubsetIffEveryItemIn ==
  npc = "done" /\ C24_HashAgrees =>
    /\ nop = "subsetOf" => nres = <<C25_Subset(n1, n2)>>
    /\ nop = "supersetOf" => nres = <<C25_Subset(n2, n1)>>

\* What the code does guarantee: [true] exactly when moreover the first
\* collection has no more items than the second.
C25_SubsetIffEveryItemInAndNotLonger ==
  npc = "done" /\ C24_HashAgrees =>
    /\ nop = "subsetOf" => nres = <<C25_Subset(n1, n2) /\ Len(n1) <= Len(n2)>>
    /\ nop = "supersetOf" => nres = <<C25_Subset(n2, n1) /\ Len(n2) <= Len(n1)>>

(***************************************************************************)
(* C26.  misc.singleton(coll, type) throws when the collection has more    *)
(* than one item, returns empty when it is empty or its single item is     *)
(* null, returns the value when the single item is of the type, and        *)
(* throws when it is not, for each of Integer, Boolean, Number, String     *)
(* and StringOrNumber.                                                     *)
(***************************************************************************)
C26_Types == {"Integer", "Boolean", "Number", "String", "StringOrNumber"}

\* The item is of the type: an integral number for Integer, a number or a
\* bigint for Number
C26_IsOfType(v, type) ==
  CASE type = "Integer" -> v.k = "num" /\ v.n % Unit = 0
    [] type = "Boolean" -> v.k = "bool"
    [] type = "Number" -> v.k \in {"num", "bigint"}
    [] type = "String" -> v.k = "str"
    [] OTHER -> v.k \in {"str", "num"}

C26_Common ==
  /\ Len(gcoll) > 1 => gres.thrown
  /\ Len(gcoll) = 0 => gres = SingletonReturned(EmptyColl)
  /\ Len(gcoll) = 1 /\ gcoll[1].k = "null" => gres = SingletonReturned(EmptyColl)
  /\ Len(gcoll) = 1 /\ gcoll[1].k # "null" /\ C26_IsOfType(gcoll[1], gtype) =>
       gres = SingletonReturned(gcoll[1])

C27_Not(r) ==
  CASE r \in {"true", "[true]"} -> "false"
    [] r = "false" -> "true"
    [] OTHER -> "empty"

C27_UnequivalNegatesEquival ==
  epc = "done" /\ eop = "unequival" => eres = C27_Not(equival(ea, eb))

\* What the code does guarantee: the negation when no operand or both
\* operands are empty, and false when exactly one is.
C27_UnequivalNegatesUnlessOneEmpty ==
  epc = "done" /\ eop = "unequival" =>
    IF isEmpty(ea) # isEmpty(eb) THEN eres = "false"
    ELSE eres = C27_Not(equival(ea, eb))

(***************************************************************************)
(* C28.  Division by zero yields the empty collection, never an exception  *)
(* or a non-finite number: div, intdiv and mod return empty whenever the   *)
(* divisor is zero, as a number or as a bigint, whatever the dividend.     *)
(***************************************************************************)
C28_ZeroDivisorGivesEmpty ==
  ypc = "done" /\ yy.num = 0 => yres = EmptyResult

\* What the code does guarantee: empty from div and intdiv, and from mod for
\* the number 0.
C28_ZeroDivisorGivesEmptyButModBigInt ==
  ypc = "done" /\ yy.num = 0 /\ ~(yop = "mod" /\ yy.t = "bigint") =>
    yres = EmptyResult

(***************************************************************************)
(* C29.  intdiv and mod do not depend on the representation of their       *)
(* integer operands: for integers x and y, y not 0, they give the same     *)
(* integer whether x and y are numbers, bigints or one of each, and        *)
(* x = intdiv(x, y) * y + mod(x, y).                                       *)
(***************************************************************************)
C29_Reps(n) == {NumberOf(n), BigIntOf(n)}

C29_SameForEveryRepresentation ==
  ypc = "done" /\ yop \in {"intdiv", "mod"} /\ yy.num # 0 =>
    /\ yres.t \in {"number", "bigint"} /\ yres.den = 1
    /\ \A x \in C29_Reps(yx.num), y \in C29_Reps(yy.num) :
         /\ yop = "intdiv" => intdiv(x, y).num = yres.num
         /\ yop = "mod" => mod(x, y).num = yres.num
    /\ yx.num = intdiv(yx, yy).num * yy.num + mod(yx, yy).num

\* What the code does guarantee: the same when the quotient is not
\* negative or the division is exact.
C29_SameWhenQuotientNotNegative ==
  ypc = "done" /\ yop \in {"intdiv", "mod"} /\ yy.num # 0
    /\ ((yx.num < 0) = (yy.num < 0) \/ remainder(yx.num, yy.num) = 0) =>
    /\ yres.t \in {"number", "bigint"} /\ yres.den = 1
    /\ \A x \in C29_Reps(yx.num), y \in C29_Reps(yy.num) :
         /\ yop = "intdiv" => intdiv(x, y).num = yres.num
         /\ yop = "mod" => mod(x, y).num = yres.num
    /\ yx.num = intdiv(yx, yy).num * yy.num + mod(yx, yy).num

====
